---- MODULE Spec2Model ----
(***************************************************************************)
(* A model of libsrtp's srtp.c: the session / stream registry, the RTP and *)
(* RTCP protect / unprotect data paths (AES-CTR + HMAC-SHA1 and AES-GCM),  *)
(* the replay databases and the SSRC-collision events.                     *)
(*                                                                         *)
(* Packets are byte sequences (1-indexed: C offset k is element k+1).      *)
(* Two sessions exist, each built by srtp_create from a policy list; a     *)
(* single packet buffer ("wire") carries the last protected packet from    *)
(* one session to the other, possibly with one byte changed on the way.    *)
(*                                                                         *)
(* Events are recorded where srtp.c hands them to srtp_handle_event.       *)
(***************************************************************************)
EXTENDS Integers, Sequences, FiniteSets, TLC

VARIABLES
  session,   \* session[s]: the srtp_ctx_t of session s
  wire,      \* the packet buffer travelling between the sessions
  last,      \* record of the last API call: inputs, status, events, output
  ncalls,    \* number of API calls made so far (bounded by MaxCalls)
  crypto,    \* the crypto policy the application configures its streams with
  heap       \* heap[s]: the objects session s has allocated and released

vars == <<session, wire, last, ncalls, crypto, heap>>

(***************************************************************************)
(* Bounds of the model                                                     *)
(***************************************************************************)
MaxCalls == 3
MaxPayload == 1
MaxRun == 130

(***************************************************************************)
(* Program constants                                                       *)
(***************************************************************************)
octets_in_rtp_header == 12
uint32s_in_rtp_header == 3
octets_in_rtcp_header == 8
uint32s_in_rtcp_header == 2
octets_in_rtp_extn_hdr == 4
SRTP_AEAD_SALT_LEN == 12
MAX_SRTP_KEY_LEN == 256
sizeof_srtcp_trailer_t == 4
seq_num_median == 32768
seq_num_max == 65536
rdb_bits_in_bitmask == 128
soft_limit == 65536

sec_serv_none == 0
sec_serv_conf == 1
sec_serv_auth == 2
sec_serv_conf_and_auth == 3

label_rtp_encryption == 0
label_rtp_msg_auth == 1
label_rtp_salt == 2
label_rtcp_encryption == 3
label_rtcp_msg_auth == 4
label_rtcp_salt == 5

Sessions == {1, 2}

(***************************************************************************)
(* Bytes and byte order                                                    *)
(***************************************************************************)
RECURSIVE Xor8(_, _)
Xor8(a, b) ==
  IF a = 0 THEN b
  ELSE IF b = 0 THEN a
  ELSE ((a + b) % 2) + 2 * Xor8(a \div 2, b \div 2)

XorSeq(a, b) == [i \in 1..Len(a) |-> Xor8(a[i], b[i])]

\* htons / htonl: the memory image (network order) of a host integer
htons(v) == <<(v \div 256) % 256, v % 256>>
htonl(v) == <<(v \div 16777216) % 256, (v \div 65536) % 256, (v \div 256) % 256, v % 256>>
\* ntohs: the host integer of a 2-byte memory image
ntohs(b) == b[1] * 256 + b[2]
Zeros(n) == [i \in 1..n |-> 0]
Reverse(s) == [i \in 1..Len(s) |-> s[Len(s) + 1 - i]]

(***************************************************************************)
(* Cipher / MAC primitives (crypto kernel; modelled from the contract of   *)
(* section 4.A): a keystream cipher, a keyed tag function.                 *)
(***************************************************************************)
HashMod == 65521
HashMul == 257

RECURSIVE Fold(_, _, _)
Fold(h, s, i) ==
  IF i > Len(s) THEN h
  ELSE LET h1 == (h * HashMul + s[i] + 1) % HashMod
       IN IF h1 < HashMod THEN Fold(h1, s, i + 1) ELSE h1

Digest(key, s) == Fold((key + 1) % HashMod, s, 1)

\* n output bytes of a digest value
TagBytes(h, n) ==
  [i \in 1..n |-> (IF i % 2 = 1 THEN (h \div 256) + i ELSE h + 3 * i) % 256]

\* keystream byte i of a cipher keyed with key under IV iv
Keystream(block, i) == (block * 7 + 13 * i + 5) % 256

\* srtp_cipher_encrypt / srtp_cipher_decrypt of AES-ICM: xor with the keystream
icm_crypt(key, iv, buf) ==
  LET block == Digest(key, iv)
  IN [i \in 1..Len(buf) |-> Xor8(buf[i], Keystream(block, i))]

\* auth_start; auth_update(data); auth_compute(extra) of HMAC-SHA1, tag_len bytes
hmac_compute(key, data, tag_len) == TagBytes(Digest(key, data), tag_len)

\* AES-GCM: the tag covers the AAD and the ciphertext under (key, iv)
gcm_tag(key, iv, aad, ct, tag_len) ==
  TagBytes(Digest(Digest(Digest(key, iv), aad) + 7, ct), tag_len)

\* octet_string_is_eq: non-zero (TRUE) iff the strings differ
octet_string_is_eq(a, b, len) == \E i \in 1..len : a[i] # b[i]


(***************************************************************************)
(* RTP replay database (rdbx): extended index + sliding window.  bits is   *)
(* the set of window positions that are set; position ws-1 is the newest.  *)
(***************************************************************************)
srtp_rdbx_init(ws) == [index |-> 0, ws |-> ws, bits |-> {}]

srtp_rdbx_get_window_size(rdbx) == rdbx.ws

\* srtp_index_guess: result is <<guess, difference>>
srtp_index_guess(local, s) ==
  LET local_roc == local \div seq_num_max
      local_seq == local % seq_num_max
  IN IF local_seq < seq_num_median
     THEN IF s - local_seq > seq_num_median
          THEN <<(local_roc - 1) * seq_num_max + s, s - local_seq - seq_num_max>>
          ELSE <<local_roc * seq_num_max + s, s - local_seq>>
     ELSE IF local_seq - seq_num_median > s
          THEN <<(local_roc + 1) * seq_num_max + s, s - local_seq + seq_num_max>>
          ELSE <<local_roc * seq_num_max + s, s - local_seq>>

\* srtp_rdbx_estimate_index: result is <<est, delta>>
srtp_rdbx_estimate_index(rdbx, s) ==
  IF rdbx.index > seq_num_median
  THEN srtp_index_guess(rdbx.index, s)
  ELSE <<s, s - (rdbx.index % seq_num_max)>>

srtp_rdbx_check(rdbx, delta) ==
  IF delta > 0 THEN "ok"
  ELSE IF (rdbx.ws - 1) + delta < 0 THEN "replay_old"
  ELSE IF ((rdbx.ws - 1) + delta) \in rdbx.bits THEN "replay_fail"
  ELSE "ok"

srtp_rdbx_add_index(rdbx, delta) ==
  IF delta > 0
  THEN [rdbx EXCEPT !.index = rdbx.index + delta,
                    !.bits = {b - delta : b \in {c \in rdbx.bits : c - delta >= 0}}
                             \cup {rdbx.ws - 1}]
  ELSE [rdbx EXCEPT !.bits = rdbx.bits \cup {rdbx.ws - 1 + delta}]

srtp_rdbx_get_packet_index(rdbx) == rdbx.index

(***************************************************************************)
(* RTCP replay database (rdb): window_start is also the sender's index.    *)
(***************************************************************************)
srtp_rdb_init == [window_start |-> 0, bits |-> {}]

srtp_rdb_check(rdb, p_index) ==
  IF p_index >= rdb.window_start + rdb_bits_in_bitmask THEN "ok"
  ELSE IF p_index < rdb.window_start THEN "replay_old"
  ELSE IF (p_index - rdb.window_start) \in rdb.bits THEN "replay_fail"
  ELSE "ok"

srtp_rdb_add_index(rdb, p_index) ==
  LET delta == p_index - rdb.window_start
      shift == delta - (rdb_bits_in_bitmask - 1)
  IN IF delta < rdb_bits_in_bitmask
     THEN [rdb EXCEPT !.bits = rdb.bits \cup {delta}]
     ELSE [window_start |-> rdb.window_start + shift,
           bits |-> {b - shift : b \in {c \in rdb.bits : c - shift >= 0}}
                    \cup {rdb_bits_in_bitmask - 1}]

\* srtp_rdb_increment: <<status, rdb>>; fails when the index would pass 2^31 - 1
srtp_rdb_increment(rdb) ==
  IF rdb.window_start >= 2147483647
  THEN <<"key_expired", rdb>>
  ELSE <<"ok", [rdb EXCEPT !.window_start = rdb.window_start + 1]>>

srtp_rdb_get_value(rdb) == rdb.window_start

(***************************************************************************)
(* Key usage limit: a 48-bit counter kept as two 24-bit limbs.             *)
(***************************************************************************)
Limb == 16777216

srtp_key_limit_set == [hi |-> Limb - 1, lo |-> Limb - 1, state |-> "normal"]

\* srtp_key_limit_update: <<event, limit>>
srtp_key_limit_update(l) ==
  LET dec == IF l.lo > 0 THEN [l EXCEPT !.lo = l.lo - 1]
             ELSE IF l.hi > 0 THEN [l EXCEPT !.hi = l.hi - 1, !.lo = Limb - 1]
             ELSE [l EXCEPT !.hi = Limb - 1, !.lo = Limb - 1]
  IN IF dec.hi > 0 \/ dec.lo >= soft_limit
     THEN <<"normal", dec>>
     ELSE IF dec.lo < 1
          THEN <<"hard_limit", [dec EXCEPT !.state = "expired"]>>
          ELSE <<"soft_limit", [dec EXCEPT !.state = "past_soft_limit"]>>


(***************************************************************************)
(* Policies.  A crypto policy is what the srtp_crypto_policy_set_*         *)
(* helpers fill in; a policy adds the SSRC specifier, the master key, the  *)
(* replay window size and allow_repeat_tx.                                 *)
(***************************************************************************)
srtp_crypto_policy_set_rtp_default ==
  [cipher_type |-> "SRTP_AES_ICM", cipher_key_len |-> 30, auth_type |-> "SRTP_HMAC_SHA1",
   auth_key_len |-> 20, auth_tag_len |-> 10, sec_serv |-> sec_serv_conf_and_auth]

srtp_crypto_policy_set_aes_cm_128_null_auth ==
  [cipher_type |-> "SRTP_AES_ICM", cipher_key_len |-> 30, auth_type |-> "SRTP_NULL_AUTH",
   auth_key_len |-> 0, auth_tag_len |-> 0, sec_serv |-> sec_serv_conf]

srtp_crypto_policy_set_null_cipher_hmac_sha1_80 ==
  [cipher_type |-> "SRTP_NULL_CIPHER", cipher_key_len |-> 0, auth_type |-> "SRTP_HMAC_SHA1",
   auth_key_len |-> 20, auth_tag_len |-> 10, sec_serv |-> sec_serv_auth]

srtp_crypto_policy_set_aes_gcm_128_8_auth ==
  [cipher_type |-> "SRTP_AES_128_GCM", cipher_key_len |-> 28, auth_type |-> "SRTP_NULL_AUTH",
   auth_key_len |-> 0, auth_tag_len |-> 8, sec_serv |-> sec_serv_conf_and_auth]

srtp_crypto_policy_set_aes_cm_128_hmac_sha1_32 ==
  [cipher_type |-> "SRTP_AES_ICM", cipher_key_len |-> 30, auth_type |-> "SRTP_HMAC_SHA1",
   auth_key_len |-> 20, auth_tag_len |-> 4, sec_serv |-> sec_serv_conf_and_auth]

srtp_crypto_policy_set_aes_cm_256_hmac_sha1_80 ==
  [cipher_type |-> "SRTP_AES_ICM", cipher_key_len |-> 46, auth_type |-> "SRTP_HMAC_SHA1",
   auth_key_len |-> 20, auth_tag_len |-> 10, sec_serv |-> sec_serv_conf_and_auth]

srtp_crypto_policy_set_aes_cm_256_hmac_sha1_32 ==
  [cipher_type |-> "SRTP_AES_ICM", cipher_key_len |-> 46, auth_type |-> "SRTP_HMAC_SHA1",
   auth_key_len |-> 20, auth_tag_len |-> 4, sec_serv |-> sec_serv_conf_and_auth]

\* the name the profile helpers use for the RTP default policy
srtp_crypto_policy_set_aes_cm_128_hmac_sha1_80 == srtp_crypto_policy_set_rtp_default

\* srtp_crypto_policy_set_from_profile_for_rtp(policy, profile): [status, policy]
srtp_crypto_policy_set_from_profile_for_rtp(policy, profile) ==
  CASE profile = "srtp_profile_aes128_cm_sha1_80" ->
         [status |-> "ok", policy |-> srtp_crypto_policy_set_aes_cm_128_hmac_sha1_80]
    [] profile = "srtp_profile_aes128_cm_sha1_32" ->
         [status |-> "ok", policy |-> srtp_crypto_policy_set_aes_cm_128_hmac_sha1_32]
    [] profile = "srtp_profile_null_sha1_80" ->
         [status |-> "ok", policy |-> srtp_crypto_policy_set_null_cipher_hmac_sha1_80]
    [] profile = "srtp_profile_aes256_cm_sha1_80" ->
         [status |-> "ok", policy |-> srtp_crypto_policy_set_aes_cm_256_hmac_sha1_80]
    [] profile = "srtp_profile_aes256_cm_sha1_32" ->
         [status |-> "ok", policy |-> srtp_crypto_policy_set_aes_cm_256_hmac_sha1_32]
    [] OTHER -> [status |-> "bad_param", policy |-> policy]

\* an RTCP helper that honours the 32-bit tag request
srtp_crypto_policy_set_from_profile_for_rtcp_32(policy, profile) ==
  srtp_crypto_policy_set_from_profile_for_rtp(policy, profile)

\* srtp_crypto_policy_set_from_profile_for_rtcp(policy, profile): [status, policy]
srtp_crypto_policy_set_from_profile_for_rtcp(policy, profile) ==
  CASE profile = "srtp_profile_aes128_cm_sha1_80" ->
         [status |-> "ok", policy |-> srtp_crypto_policy_set_aes_cm_128_hmac_sha1_80]
    [] profile = "srtp_profile_aes128_cm_sha1_32" ->
         [status |-> "ok", policy |-> srtp_crypto_policy_set_aes_cm_128_hmac_sha1_80]
    [] profile = "srtp_profile_null_sha1_80" ->
         [status |-> "ok", policy |-> srtp_crypto_policy_set_null_cipher_hmac_sha1_80]
    [] profile = "srtp_profile_aes256_cm_sha1_80" ->
         [status |-> "ok", policy |-> srtp_crypto_policy_set_aes_cm_256_hmac_sha1_80]
    [] profile = "srtp_profile_aes256_cm_sha1_32" ->
         [status |-> "ok", policy |-> srtp_crypto_policy_set_aes_cm_256_hmac_sha1_80]
    [] OTHER -> [status |-> "bad_param", policy |-> policy]

\* the crypto policies the model draws from; RTP and RTCP use the same one
CryptoPolicy(kind) ==
  CASE kind = "aes_cm_128_hmac_sha1_80" -> srtp_crypto_policy_set_rtp_default
    [] kind = "aes_cm_128_null_auth" -> srtp_crypto_policy_set_aes_cm_128_null_auth
    [] kind = "null_cipher_hmac_sha1_80" -> srtp_crypto_policy_set_null_cipher_hmac_sha1_80
    [] kind = "aes_gcm_128_8_auth" -> srtp_crypto_policy_set_aes_gcm_128_8_auth

PolicyKinds == {"aes_cm_128_hmac_sha1_80", "aes_cm_128_null_auth",
                "null_cipher_hmac_sha1_80", "aes_gcm_128_8_auth"}

\* master key + salt buffers handed in by the caller (46 octets)
MasterKey(k) == [i \in 1..46 |-> (k * 16 + i) % 256]
MasterKeyIds == {1}

SsrcValues == {1}
SsrcTypes == {"ssrc_undefined", "ssrc_specific", "ssrc_any_inbound", "ssrc_any_outbound"}

Policy(kind, ssrc_type, ssrc_value, k) ==
  [rtp |-> CryptoPolicy(kind), rtcp |-> CryptoPolicy(kind),
   ssrc |-> [type |-> ssrc_type, value |-> ssrc_value],
   key |-> MasterKey(k), window_size |-> 0, allow_repeat_tx |-> 0]

(***************************************************************************)
(* Key derivation                                                          *)
(***************************************************************************)
\* a base key length that takes AES-256-GCM for AES-128-GCM
base_key_length_gcm(cipher_id, key_length) ==
  CASE cipher_id \in {"SRTP_AES_ICM", "SRTP_AES_192_ICM", "SRTP_AES_256_ICM"} ->
         key_length - 14
    [] cipher_id = "SRTP_AES_128_GCM" -> 16
    [] cipher_id = "SRTP_AES_256_GCM" -> 16
    [] OTHER -> key_length

\* base_key_length: SRTP_AES_ICM is SRTP_AES_128_ICM
base_key_length(cipher_id, key_length) ==
  CASE cipher_id \in {"SRTP_AES_ICM", "SRTP_AES_192_ICM", "SRTP_AES_256_ICM"} ->
         key_length - 14
    [] cipher_id = "SRTP_AES_128_GCM" -> 16
    [] cipher_id = "SRTP_AES_256_GCM" -> 32
    [] OTHER -> key_length

\* srtp_kdf_init: the KDF cipher keyed with the first length octets of key
srtp_kdf_init(key, length) == Digest(length, SubSeq(key, 1, length))

\* srtp_kdf_generate: length octets of keystream under the label's nonce
srtp_kdf_generate(kdf, label, length) ==
  IF length = 0 THEN 0 ELSE 1 + Digest(kdf, <<label, length>>)

\* kdf_keylen of srtp_stream_init_keys: 30, raised to 46 by the RTP key length
\* and then by the RTCP key length
kdf_keylen(rtp_keylen, rtcp_keylen) ==
  LET after_rtp == IF rtp_keylen > 30 THEN 46 ELSE 30
  IN IF rtcp_keylen > after_rtp THEN 46 ELSE after_rtp

\* tmp_key of srtp_stream_init_keys as it is handed to srtp_kdf_init:
\* memset(tmp_key, 0); memcpy(tmp_key, key, rtp_base_key_len + rtp_salt_len)
kdf_tmp_key(srtp, key) ==
  LET rtp_keylen == srtp.rtp_cipher.key_len
      rtp_base_key_len == base_key_length(srtp.rtp_cipher.type, rtp_keylen)
      rtp_salt_len == rtp_keylen - rtp_base_key_len
  IN [i \in 1..MAX_SRTP_KEY_LEN |->
        IF i <= rtp_base_key_len + rtp_salt_len THEN key[i] ELSE 0]

\* the steps of srtp_stream_init_keys that can fail, in the order they are taken
InitKeysSteps ==
  <<"kdf_alloc", "kdf_init", "rtp_enc", "rtp_salt", "rtp_cipher_init", "rtp_auth_key",
    "rtp_auth_init", "rtcp_enc", "rtcp_salt", "rtcp_cipher_init", "rtcp_auth_key",
    "rtcp_auth_init">>

StepNo(step) ==
  IF step = "none" THEN Len(InitKeysSteps) + 1
  ELSE CHOOSE i \in 1..Len(InitKeysSteps) : InitKeysSteps[i] = step

\* srtp_stream_init_keys when step fail fails ("none": no step fails):
\*   status  - the status returned
\*   srtp    - the stream, keyed as far as the call got
\*   tmp_key - the temporary key buffer at the return
\*   kdf     - the KDF cipher at the return: "none" (not allocated),
\*             "allocated" or "released"
\*   lens    - the lengths the call worked with
srtp_stream_init_keys_at(srtp, key, fail) ==
  LET rtp_keylen == srtp.rtp_cipher.key_len
      rtcp_keylen == srtp.rtcp_cipher.key_len
      rtp_base_key_len == base_key_length(srtp.rtp_cipher.type, rtp_keylen)
      rtp_salt_len == rtp_keylen - rtp_base_key_len
      tmp_key == kdf_tmp_key(srtp, key)
      kdf == srtp_kdf_init(tmp_key, kdf_keylen(rtp_keylen, rtcp_keylen))
      rtp_enc == srtp_kdf_generate(kdf, label_rtp_encryption, rtp_base_key_len)
      rtp_salt == srtp_kdf_generate(kdf, label_rtp_salt, rtp_salt_len)
      rtp_mac == srtp_kdf_generate(kdf, label_rtp_msg_auth, srtp.rtp_auth.key_len)
      rtcp_base_key_len == base_key_length(srtp.rtcp_cipher.type, rtcp_keylen)
      rtcp_salt_len == rtcp_keylen - rtcp_base_key_len
      rtcp_enc == srtp_kdf_generate(kdf, label_rtcp_encryption, rtcp_base_key_len)
      rtcp_salt == srtp_kdf_generate(kdf, label_rtcp_salt, rtcp_salt_len)
      rtcp_mac == srtp_kdf_generate(kdf, label_rtcp_msg_auth, srtp.rtcp_auth.key_len)
      done(step) == StepNo(step) < StepNo(fail)
  IN [status |-> IF fail = "none" THEN "ok" ELSE "init_fail",
      srtp |->
        [srtp EXCEPT
           !.salt = IF rtp_salt_len > 0 /\ done("rtp_salt")
                    THEN TagBytes(rtp_salt, SRTP_AEAD_SALT_LEN) ELSE @,
           !.c_salt = IF rtcp_salt_len > 0 /\ done("rtcp_salt")
                      THEN TagBytes(rtcp_salt, SRTP_AEAD_SALT_LEN) ELSE @,
           !.rtp_cipher.key = IF done("rtp_cipher_init")
                              THEN Digest(rtp_enc, <<rtp_salt % 256, rtp_salt \div 256>>)
                              ELSE @,
           !.rtp_auth.key = IF done("rtp_auth_init") THEN rtp_mac ELSE @,
           !.rtcp_cipher.key = IF done("rtcp_cipher_init")
                               THEN Digest(rtcp_enc, <<rtcp_salt % 256, rtcp_salt \div 256>>)
                               ELSE @,
           !.rtcp_auth.key = IF done("rtcp_auth_init") THEN rtcp_mac ELSE @],
      \* srtp_kdf_init failing returns before any octet_string_set_to_zero
      tmp_key |-> IF fail \in {"kdf_alloc", "kdf_init"}
                  THEN tmp_key ELSE Zeros(MAX_SRTP_KEY_LEN),
      \* srtp_kdf_init releases the cipher it could not key; srtp_kdf_clear is
      \* called on the path that returns ok only
      kdf |-> IF fail = "kdf_alloc" THEN "none"
              ELSE IF fail \in {"kdf_init", "none"} THEN "released"
              ELSE "allocated",
      lens |-> [kdf_keylen |-> kdf_keylen(rtp_keylen, rtcp_keylen),
                rtp_base_key_len |-> rtp_base_key_len, rtp_salt_len |-> rtp_salt_len,
                rtcp_base_key_len |-> rtcp_base_key_len,
                rtcp_salt_len |-> rtcp_salt_len]]

\* srtp_stream_init_keys with no failing step: the stream with its ciphers and
\* MACs keyed
srtp_stream_init_keys(srtp, key) == srtp_stream_init_keys_at(srtp, key, "none").srtp

(***************************************************************************)
(* Stream contexts                                                         *)
(***************************************************************************)
\* srtp_crypto_kernel_alloc_cipher / _alloc_auth: the objects of a stream
alloc_cipher(type, key_len) ==
  [type |-> type, algorithm |-> type, key_len |-> key_len, key |-> 0]

alloc_auth(type, key_len, tag_len) ==
  [type |-> type, key_len |-> key_len, tag_len |-> tag_len, prefix_len |-> 0, key |-> 0]

\* srtp_stream_alloc: a stream context with its ciphers, MACs and key limit
\* (the limit lives in the session's table of limits, at index limit)
srtp_stream_alloc(p, limit) ==
  [rtp_cipher |-> alloc_cipher(p.rtp.cipher_type, p.rtp.cipher_key_len),
   rtp_auth |-> alloc_auth(p.rtp.auth_type, p.rtp.auth_key_len, p.rtp.auth_tag_len),
   limit |-> limit,
   rtcp_cipher |-> alloc_cipher(p.rtcp.cipher_type, p.rtcp.cipher_key_len),
   rtcp_auth |-> alloc_auth(p.rtcp.auth_type, p.rtcp.auth_key_len, p.rtcp.auth_tag_len),
   rtp_rdbx |-> srtp_rdbx_init(1), rtcp_rdb |-> srtp_rdb_init,
   ssrc |-> Zeros(4), direction |-> "dir_unknown",
   rtp_services |-> sec_serv_none, rtcp_services |-> sec_serv_none,
   allow_repeat_tx |-> 0, salt |-> Zeros(SRTP_AEAD_SALT_LEN),
   c_salt |-> Zeros(SRTP_AEAD_SALT_LEN)]

\* the objects srtp_stream_alloc acquires, in the order it acquires them
AllocSteps == <<"str", "rtp_cipher", "rtp_auth", "limit", "rtcp_cipher", "rtcp_auth", "ekt">>

AllocStepNo(step) ==
  IF step = "none" THEN Len(AllocSteps) + 1
  ELSE CHOOSE i \in 1..Len(AllocSteps) : AllocSteps[i] = step

\* an unwinding that forgets the key limit when the RTCP MAC cannot be allocated
srtp_stream_alloc_leak(p, limit, fail, stat) ==
  [status |-> IF fail = "none" THEN "ok"
              ELSE IF fail \in {"str", "limit"} THEN "alloc_fail"
              ELSE stat,
   str |-> IF fail = "none" THEN <<srtp_stream_alloc(p, limit)>> ELSE <<>>,
   acquired |-> SubSeq(AllocSteps, 1, AllocStepNo(fail) - 1),
   released |->
     CASE fail \in {"none", "str"} -> <<>>
       [] fail = "rtp_cipher" -> <<"str">>
       [] fail = "rtp_auth" -> <<"rtp_cipher", "str">>
       [] fail = "limit" -> <<"rtp_auth", "rtp_cipher", "str">>
       [] fail = "rtcp_cipher" -> <<"rtp_auth", "rtp_cipher", "limit", "str">>
       [] fail = "rtcp_auth" -> <<"rtcp_cipher", "rtp_auth", "rtp_cipher", "str">>
       [] fail = "ekt" ->
            <<"rtcp_auth", "rtcp_cipher", "rtp_auth", "rtp_cipher", "limit", "str">>]

\* srtp_stream_alloc when the allocation of object fail fails with status stat
\* ("none": no allocation fails):
\*   status   - the status returned
\*   str      - <<the stream>> on ok, <<>> otherwise
\*   acquired - the objects acquired before the failure, oldest first
\*   released - the objects released before the return, in the order of the
\*              release calls
srtp_stream_alloc_at(p, limit, fail, stat) ==
  [status |-> IF fail = "none" THEN "ok"
              ELSE IF fail \in {"str", "limit"} THEN "alloc_fail"
              ELSE stat,
   str |-> IF fail = "none" THEN <<srtp_stream_alloc(p, limit)>> ELSE <<>>,
   acquired |-> SubSeq(AllocSteps, 1, AllocStepNo(fail) - 1),
   released |->
     CASE fail \in {"none", "str"} -> <<>>
       [] fail = "rtp_cipher" -> <<"str">>
       [] fail = "rtp_auth" -> <<"rtp_cipher", "str">>
       [] fail = "limit" -> <<"rtp_auth", "rtp_cipher", "str">>
       [] fail = "rtcp_cipher" -> <<"rtp_auth", "rtp_cipher", "limit", "str">>
       [] fail = "rtcp_auth" -> <<"rtcp_cipher", "rtp_auth", "rtp_cipher", "limit", "str">>
       [] fail = "ekt" ->
            <<"rtcp_auth", "rtcp_cipher", "rtp_auth", "rtp_cipher", "limit", "str">>]

\* a stream initialisation that takes any allow_repeat_tx
srtp_stream_init_repeat(srtp, p) ==
  IF p.window_size # 0 /\ (p.window_size < 64 \/ p.window_size >= 32768)
  THEN <<"bad_param", srtp>>
  ELSE <<"ok",
         srtp_stream_init_keys(
           [srtp EXCEPT
              !.rtp_rdbx = srtp_rdbx_init(IF p.window_size # 0 THEN p.window_size ELSE 128),
              !.ssrc = htonl(p.ssrc.value),
              !.rtp_services = p.rtp.sec_serv,
              !.rtcp_services = p.rtcp.sec_serv,
              !.direction = "dir_unknown",
              !.rtcp_rdb = srtp_rdb_init,
              !.allow_repeat_tx = p.allow_repeat_tx],
           p.key)>>

\* a stream initialisation with no upper limit on the window size
srtp_stream_init_wide(srtp, p) ==
  IF p.window_size # 0 /\ p.window_size < 64
  THEN <<"bad_param", srtp>>
  ELSE IF p.allow_repeat_tx # 0 /\ p.allow_repeat_tx # 1
  THEN <<"bad_param", srtp>>
  ELSE <<"ok",
         srtp_stream_init_keys(
           [srtp EXCEPT
              !.rtp_rdbx = srtp_rdbx_init(IF p.window_size # 0 THEN p.window_size ELSE 128),
              !.ssrc = htonl(p.ssrc.value),
              !.rtp_services = p.rtp.sec_serv,
              !.rtcp_services = p.rtcp.sec_serv,
              !.direction = "dir_unknown",
              !.rtcp_rdb = srtp_rdb_init,
              !.allow_repeat_tx = p.allow_repeat_tx],
           p.key)>>

\* srtp_stream_init: <<status, stream>>
srtp_stream_init(srtp, p) ==
  IF p.window_size # 0 /\ (p.window_size < 64 \/ p.window_size >= 32768)
  THEN <<"bad_param", srtp>>
  ELSE IF p.allow_repeat_tx # 0 /\ p.allow_repeat_tx # 1
  THEN <<"bad_param", srtp>>
  ELSE <<"ok",
         srtp_stream_init_keys(
           [srtp EXCEPT
              !.rtp_rdbx = srtp_rdbx_init(IF p.window_size # 0 THEN p.window_size ELSE 128),
              !.ssrc = htonl(p.ssrc.value),
              !.rtp_services = p.rtp.sec_serv,
              !.rtcp_services = p.rtcp.sec_serv,
              !.direction = "dir_unknown",
              !.rtcp_rdb = srtp_rdb_init,
              !.allow_repeat_tx = p.allow_repeat_tx],
           p.key)>>

\* srtp_stream_clone: the clone shares ciphers, MACs and the key limit
srtp_stream_clone(stream_template, ssrc) ==
  [stream_template EXCEPT
     !.rtp_rdbx = srtp_rdbx_init(srtp_rdbx_get_window_size(stream_template.rtp_rdbx)),
     !.rtcp_rdb = srtp_rdb_init,
     !.ssrc = ssrc]


(***************************************************************************)
(* Session registry.  A session (srtp_ctx_t) is                            *)
(*   stream_list     - the list of streams, head first                     *)
(*   stream_template - <<>> (NULL) or <<template>>                         *)
(*   limits          - the key-limit objects of the session; a stream's    *)
(*                     limit field is an index into it (clones share the   *)
(*                     template's index)                                   *)
(***************************************************************************)
EmptySession == [stream_list |-> <<>>, stream_template |-> <<>>, limits |-> <<>>]

\* a lookup that settles for the head of the list
srtp_get_stream_head(ctx, ssrc) == IF ctx.stream_list = <<>> THEN 0 ELSE 1

\* srtp_get_stream: index of the first stream with this (network order) ssrc, 0 = NULL
srtp_get_stream(ctx, ssrc) ==
  LET hits == {i \in 1..Len(ctx.stream_list) : ctx.stream_list[i].ssrc = ssrc}
  IN IF hits = {} THEN 0 ELSE CHOOSE i \in hits : \A j \in hits : i <= j

\* template arms that replace an existing template
install_template_replace(ctx, ctx1, stream, direction) ==
  [status |-> IF ctx.stream_template # <<>> THEN "bad_param" ELSE "ok",
   ctx |-> [ctx1 EXCEPT !.stream_template =
              <<[stream EXCEPT !.direction = direction]>>]]

\* the template arms of srtp_add_stream's switch: a second template is refused
\* and ctx is left as it was, else the stream becomes the template of ctx1
install_template(ctx, ctx1, stream, direction) ==
  IF ctx.stream_template # <<>>
  THEN [status |-> "bad_param", ctx |-> ctx]
  ELSE [status |-> "ok",
        ctx |-> [ctx1 EXCEPT !.stream_template =
                   <<[stream EXCEPT !.direction = direction]>>]]

\* srtp_add_stream: [status, ctx]; mem_ok = FALSE: srtp_stream_alloc fails
srtp_add_stream(ctx, policy, mem_ok) ==
  IF ~mem_ok THEN [status |-> "alloc_fail", ctx |-> ctx]
  ELSE
    LET tmp == srtp_stream_alloc(policy, Len(ctx.limits) + 1)
        r == srtp_stream_init(tmp, policy)
        ctx1 == [ctx EXCEPT !.limits = Append(@, srtp_key_limit_set)]
    IN IF r[1] # "ok" THEN [status |-> r[1], ctx |-> ctx]
       ELSE CASE policy.ssrc.type = "ssrc_any_outbound" ->
                   install_template(ctx, ctx1, r[2], "dir_srtp_sender")
              [] policy.ssrc.type = "ssrc_any_inbound" ->
                   install_template(ctx, ctx1, r[2], "dir_srtp_receiver")
              [] policy.ssrc.type = "ssrc_specific" ->
                   [status |-> "ok",
                    ctx |-> [ctx1 EXCEPT !.stream_list = <<r[2]>> \o @]]
              [] OTHER -> [status |-> "bad_param", ctx |-> ctx]

\* srtp_create: [status, ctx]; a failing add_stream deallocates the session
RECURSIVE srtp_create_from(_, _)
srtp_create_from(ctx, policies) ==
  IF policies = <<>> THEN [status |-> "ok", ctx |-> ctx]
  ELSE LET r == srtp_add_stream(ctx, Head(policies), TRUE)
       IN IF r.status # "ok" THEN [status |-> r.status, ctx |-> EmptySession]
          ELSE srtp_create_from(r.ctx, Tail(policies))

srtp_create(policies) == srtp_create_from(EmptySession, policies)

\* srtp_remove_stream: [status, ctx]; ssrc is in host order
srtp_remove_stream(ctx, ssrc) ==
  LET i == srtp_get_stream(ctx, htonl(ssrc))
  IN IF i = 0 THEN [status |-> "no_ctx", ctx |-> ctx]
     ELSE [status |-> "ok",
           ctx |-> [ctx EXCEPT !.stream_list =
                      SubSeq(@, 1, i - 1) \o SubSeq(@, i + 1, Len(@))]]

(***************************************************************************)
(* Heap.  heap[s] is what session s holds on the heap:                     *)
(*   alive - the srtp_ctx_t itself has not been released                   *)
(*   live  - the objects allocated and not yet released                    *)
(*   lost  - the number of streams srtp_add_stream allocated and did not   *)
(*           install in the session                                        *)
(*   wild  - the objects released while they were not allocated            *)
(*   freed - the stream contexts released so far, each with the salts it   *)
(*           held when srtp_crypto_free was called on it                   *)
(* An object is <<n, kind, ssrc>>: n is the number of the stream it was    *)
(* allocated for (the index of that stream's key limit, which a clone      *)
(* shares with its template; negative for a stream that was never          *)
(* installed), and ssrc is <<>> except for the context and the replay      *)
(* database of a clone, which are the clone's own.                         *)
(***************************************************************************)
SharedKinds == {"rtp_cipher", "rtp_auth", "limit", "rtcp_cipher", "rtcp_auth"}

NoHeap == [alive |-> TRUE, live |-> {}, lost |-> 0, wild |-> {}, freed |-> {}]

\* srtp_crypto_free, srtp_cipher_dealloc, auth_dealloc, srtp_rdbx_dealloc of object o
Release(h, o) ==
  IF o \in h.live THEN [h EXCEPT !.live = @ \ {o}] ELSE [h EXCEPT !.wild = @ \cup {o}]

\* srtp_crypto_free of a stream context that holds these salts
ReleaseCtx(h, o, stream) ==
  [Release(h, o) EXCEPT
     !.freed = @ \cup {[obj |-> o, salt |-> stream.salt, c_salt |-> stream.c_salt]}]

RECURSIVE ReleaseAll(_, _)
ReleaseAll(h, objs) ==
  IF objs = {} THEN h
  ELSE LET o == CHOOSE x \in objs : TRUE
       IN ReleaseAll(Release(h, o), objs \ {o})

\* does the stream hold the template's ciphers, MACs and key limit?
SharesTemplate(ctx, stream) ==
  ctx.stream_template # <<>> /\ stream.limit = ctx.stream_template[1].limit

\* the context and the replay database of a listed stream
OwnObject(ctx, stream, kind) ==
  <<stream.limit, kind, IF SharesTemplate(ctx, stream) THEN stream.ssrc ELSE <<>> >>

\* the objects of a session as srtp_create or the data path built it
HeapOf(ctx) ==
  [NoHeap EXCEPT !.live =
     UNION {{OwnObject(ctx, ctx.stream_list[i], k) : k \in {"ctx", "rdbx"}}
              \cup (IF SharesTemplate(ctx, ctx.stream_list[i]) THEN {}
                    ELSE {<<ctx.stream_list[i].limit, k, <<>> >> : k \in SharedKinds})
            : i \in 1..Len(ctx.stream_list)}
     \cup (IF ctx.stream_template = <<>> THEN {}
           ELSE {<<ctx.stream_template[1].limit, k, <<>> >> :
                   k \in SharedKinds \cup {"ctx", "rdbx"}})]

\* the heap after srtp_add_stream(ctx, policy): srtp_stream_alloc releases what
\* it allocated when it fails; after that only srtp_crypto_free(tmp) and the
\* srtp_rdbx_dealloc of srtp_stream_init release anything
srtp_add_stream_heap(h, ctx, policy, mem_ok) ==
  IF ~mem_ok THEN h
  ELSE
    LET tmp == srtp_stream_alloc(policy, Len(ctx.limits) + 1)
        r == srtp_stream_init(tmp, policy)
        lost == -(h.lost + 1)
        Objects(n, kinds) == {<<n, k, <<>> >> : k \in kinds}
        Leak(kinds) == [h EXCEPT !.live = @ \cup Objects(lost, kinds), !.lost = @ + 1]
    IN IF r[1] # "ok"
       THEN ReleaseCtx([Leak(SharedKinds) EXCEPT !.live = @ \cup {<<lost, "ctx", <<>> >>}],
                       <<lost, "ctx", <<>> >>, r[2])
       ELSE IF policy.ssrc.type \in {"ssrc_any_outbound", "ssrc_any_inbound"}
       THEN IF ctx.stream_template # <<>>
            THEN Leak(SharedKinds \cup {"ctx", "rdbx"})
            ELSE [h EXCEPT !.live = @ \cup Objects(tmp.limit, SharedKinds \cup {"ctx", "rdbx"})]
       ELSE IF policy.ssrc.type = "ssrc_specific"
       THEN [h EXCEPT !.live = @ \cup Objects(tmp.limit, SharedKinds \cup {"ctx", "rdbx"})]
       ELSE ReleaseCtx([Leak(SharedKinds \cup {"rdbx"}) EXCEPT
                          !.live = @ \cup {<<lost, "ctx", <<>> >>}],
                       <<lost, "ctx", <<>> >>, r[2])

\* the heap after a data-path call took ctx to ctx1: srtp_stream_clone
\* allocates a context and a replay database when the call puts a clone at the
\* head of the list, and keeps nothing when it fails
srtp_stream_clone_heap(h, ctx, ctx1) ==
  IF Len(ctx1.stream_list) = Len(ctx.stream_list) THEN h
  ELSE [h EXCEPT !.live = @ \cup {OwnObject(ctx1, ctx1.stream_list[1], k) :
                                    k \in {"ctx", "rdbx"}}]

\* a deallocation that does not look at the template
srtp_stream_dealloc_all(h, ctx, stream) ==
  LET h1 == ReleaseAll(h, {<<stream.limit, k, <<>> >> : k \in SharedKinds})
      h2 == Release(h1, OwnObject(ctx, stream, "rdbx"))
  IN ReleaseCtx(h2, OwnObject(ctx, stream, "ctx"),
                [stream EXCEPT !.salt = Zeros(SRTP_AEAD_SALT_LEN),
                               !.c_salt = Zeros(SRTP_AEAD_SALT_LEN)])

\* srtp_stream_dealloc(session, stream): ciphers, MACs and key limit are
\* released unless they are the template's; the salts are zeroized before the
\* context is released
srtp_stream_dealloc(h, ctx, stream) ==
  LET shared == SharesTemplate(ctx, stream)
      h1 == IF shared THEN h
            ELSE ReleaseAll(h, {<<stream.limit, k, <<>> >> : k \in SharedKinds})
      h2 == Release(h1, OwnObject(ctx, stream, "rdbx"))
  IN ReleaseCtx(h2, OwnObject(ctx, stream, "ctx"),
                [stream EXCEPT !.salt = Zeros(SRTP_AEAD_SALT_LEN),
                               !.c_salt = Zeros(SRTP_AEAD_SALT_LEN)])

\* the heap after srtp_remove_stream(ctx, ssrc)
srtp_remove_stream_heap(h, ctx, ssrc) ==
  LET i == srtp_get_stream(ctx, htonl(ssrc))
  IN IF i = 0 THEN h ELSE srtp_stream_dealloc(h, ctx, ctx.stream_list[i])

\* srtp_dealloc(session): the listed streams from the head on, then the
\* template's objects and the template, then the session
RECURSIVE dealloc_list(_, _, _)
dealloc_list(h, ctx, i) ==
  IF i > Len(ctx.stream_list) THEN h
  ELSE dealloc_list(srtp_stream_dealloc(h, ctx, ctx.stream_list[i]), ctx, i + 1)

srtp_dealloc(h, ctx) ==
  LET h1 == dealloc_list(h, ctx, 1)
      t == ctx.stream_template[1]
      h2 == IF ctx.stream_template = <<>> THEN h1
            ELSE ReleaseCtx(ReleaseAll(h1, {<<t.limit, k, <<>> >> :
                                              k \in SharedKinds \cup {"rdbx"}}),
                            <<t.limit, "ctx", <<>> >>, t)
  IN [h2 EXCEPT !.alive = FALSE]

(***************************************************************************)
(* srtp_get_version.  SRTP_VERSION is the version string of the build, a   *)
(* sequence of characters; the value returned is an unsigned 32-bit number, *)
(* written as its four octets, most significant first.                     *)
(***************************************************************************)
DigitChars == <<"0", "1", "2", "3", "4", "5", "6", "7", "8", "9">>

IsDigit(ch) == \E i \in 1..Len(DigitChars) : DigitChars[i] = ch

DigitValue(ch) == (CHOOSE i \in 1..Len(DigitChars) : DigitChars[i] = ch) - 1

\* the decimal digits of n, as the build writes a component of the version
RECURSIVE FormatU(_)
FormatU(n) ==
  IF n < 10 THEN <<DigitChars[n + 1]>>
  ELSE FormatU(n \div 10) \o <<DigitChars[(n % 10) + 1]>>

\* the %u conversion of sscanf: [ok, value, rest]; it fails when the text does
\* not start with a digit
RECURSIVE ScanDigits(_, _)
ScanDigits(text, value) ==
  IF text # <<>> /\ IsDigit(Head(text))
  THEN ScanDigits(Tail(text), value * 10 + DigitValue(Head(text)))
  ELSE [ok |-> TRUE, value |-> value, rest |-> text]

ScanU(text) ==
  IF text # <<>> /\ IsDigit(Head(text))
  THEN ScanDigits(text, 0)
  ELSE [ok |-> FALSE, value |-> 0, rest |-> text]

\* sscanf(text, "%u.%u.%u", &major, &minor, &micro): the number of conversions
\* made and the values assigned (0 where none was)
sscanf_version(text) ==
  LET a == ScanU(text)
      b == ScanU(Tail(a.rest))
      c == ScanU(Tail(b.rest))
  IN IF ~a.ok THEN [n |-> 0, major |-> 0, minor |-> 0, micro |-> 0]
     ELSE IF a.rest = <<>> \/ Head(a.rest) # "." \/ ~b.ok
     THEN [n |-> 1, major |-> a.value, minor |-> 0, micro |-> 0]
     ELSE IF b.rest = <<>> \/ Head(b.rest) # "." \/ ~c.ok
     THEN [n |-> 2, major |-> a.value, minor |-> b.value, micro |-> 0]
     ELSE [n |-> 3, major |-> a.value, minor |-> b.value, micro |-> c.value]

\* srtp_get_version with SRTP_VERSION = text
srtp_get_version(text) ==
  LET v == sscanf_version(text)
  IN IF v.n # 3 THEN <<0, 0, 0, 0>>
     ELSE <<v.major % 256, v.minor % 256, 0, v.micro % 256>>

(***************************************************************************)
(* Packets                                                                 *)
(***************************************************************************)
\* an RTP packet: V=2, X, CC=0, PT, sequence number, timestamp 0, SSRC,
\* an extension header of xlen words when x = 1, then the payload
RtpPacket(x, xlen, seq, ssrc, payload) ==
  <<128 + 16 * x, 96>> \o htons(seq) \o Zeros(4) \o htonl(ssrc)
  \o (IF x = 1 THEN <<190, 222>> \o htons(xlen) \o Zeros(4 * xlen) ELSE <<>>)
  \o payload

\* an RTCP packet: V=2, PT=200 (SR), length, SSRC, then the payload
RtcpPacket(ssrc, payload) ==
  <<128, 200>> \o htons(1 + Len(payload) \div 4) \o htonl(ssrc) \o payload

hdr_cc(pkt) == pkt[1] % 16
hdr_x(pkt) == (pkt[1] \div 16) % 2
hdr_seq(pkt) == SubSeq(pkt, 3, 4)
rtp_hdr_ssrc(pkt) == SubSeq(pkt, 9, 12)
rtcp_hdr_ssrc(pkt) == SubSeq(pkt, 5, 8)

srtp_validate_rtp_header(pkt, pkt_octet_len) ==
  LET rtp_header_len == octets_in_rtp_header + 4 * hdr_cc(pkt)
                        + (IF hdr_x(pkt) = 1 THEN octets_in_rtp_extn_hdr ELSE 0)
  IN IF pkt_octet_len < rtp_header_len THEN "bad_param"
     ELSE IF hdr_x(pkt) = 1
     THEN LET xtn == 4 * (uint32s_in_rtp_header + hdr_cc(pkt))
              profile_len == ntohs(SubSeq(pkt, xtn + 3, xtn + 4))
          IN IF pkt_octet_len < rtp_header_len + profile_len * 4
             THEN "bad_param" ELSE "ok"
     ELSE "ok"

\* offset of enc_start from hdr, in octets, as the data paths compute it.
\* The extension length is read from the packet only when it lies inside it.
rtp_enc_start(pkt) ==
  LET base == 4 * (uint32s_in_rtp_header + hdr_cc(pkt))
  IN IF hdr_x(pkt) = 1
     THEN base + 4 * (ntohs(SubSeq(pkt, base + 3, base + 4)) + 1)
     ELSE base


(***************************************************************************)
(* Results of a data-path call: status, the session afterwards, the packet *)
(* afterwards (its length is *pkt_octet_len), the events handed to         *)
(* srtp_handle_event, and a trace of what the call did:                    *)
(*   resolved - "none", "list" (srtp_get_stream found it), "clone" (cloned *)
(*              from the template on entry) or "template" (provisional)    *)
(*   dir      - direction of the resolved stream when it was resolved      *)
(*   authfail - the call ended in a tag mismatch                           *)
(*   ub       - the call handed a wrapped-around length to a cipher        *)
(*   checked  - the call reached its direction check                       *)
(***************************************************************************)
NoInfo ==
  [resolved |-> "none", dir |-> "none", authfail |-> FALSE, ub |-> FALSE,
   checked |-> FALSE]

Ret(status, ctx, pkt, events, info) ==
  [status |-> status, ctx |-> ctx, pkt |-> pkt, events |-> events, info |-> info]

Event(event, stream) == [event |-> event, ssrc |-> stream.ssrc]

\* a key limit switch that takes the hard limit for the soft one
key_limit_update_soft(ctx, stream) ==
  LET r == srtp_key_limit_update(ctx.limits[stream.limit])
  IN <<IF r[1] = "hard_limit" THEN "soft_limit" ELSE r[1],
       [ctx EXCEPT !.limits[stream.limit] = r[2]]>>

\* srtp_key_limit_update on the limit of a stream: <<event, ctx>>
key_limit_update(ctx, stream) ==
  LET r == srtp_key_limit_update(ctx.limits[stream.limit])
  IN <<r[1], [ctx EXCEPT !.limits[stream.limit] = r[2]]>>

\* a direction check that pins the direction but never reports a collision
check_sender_silent(stream) ==
  <<IF stream.direction = "dir_unknown"
    THEN [stream EXCEPT !.direction = "dir_srtp_sender"] ELSE stream, <<>>>>

\* the direction check of srtp_protect / srtp_protect_rtcp: <<stream, events>>
check_sender(stream) ==
  IF stream.direction # "dir_srtp_sender"
  THEN IF stream.direction = "dir_unknown"
       THEN <<[stream EXCEPT !.direction = "dir_srtp_sender"], <<>>>>
       ELSE <<stream, <<Event("event_ssrc_collision", stream)>>>>
  ELSE <<stream, <<>>>>

\* a direction check that takes the stream over for the receive side
check_receiver_flip(stream) ==
  <<[stream EXCEPT !.direction = "dir_srtp_receiver"],
    IF stream.direction = "dir_srtp_sender"
    THEN <<Event("event_ssrc_collision", stream)>> ELSE <<>>>>

\* the direction check of the unprotect paths: <<stream, events>>
check_receiver(stream) ==
  IF stream.direction # "dir_srtp_receiver"
  THEN IF stream.direction = "dir_unknown"
       THEN <<[stream EXCEPT !.direction = "dir_srtp_receiver"], <<>>>>
       ELSE <<stream, <<Event("event_ssrc_collision", stream)>>>>
  ELSE <<stream, <<>>>>

\* a tag comparison made after the state changes of the success path
auth_gate_late(mismatch, ctx, pkt, events, info, pass) ==
  IF mismatch
  THEN Ret("auth_fail", pass.ctx, pkt, events, [info EXCEPT !.authfail = TRUE])
  ELSE pass

\* no tag comparison at all
auth_gate_open(mismatch, ctx, pkt, events, info, pass) == pass

\* the tag comparison of the unprotect paths: on a mismatch the call returns
\* auth_fail with the session as it stood; otherwise it goes on to pass
auth_gate(mismatch, ctx, pkt, events, info, pass) ==
  IF mismatch
  THEN Ret("auth_fail", ctx, pkt, events, [info EXCEPT !.authfail = TRUE])
  ELSE pass

is_aead(stream) ==
  stream.rtp_cipher.algorithm \in {"SRTP_AES_128_GCM", "SRTP_AES_256_GCM"}

has_conf(services) == services % 2 = 1
has_auth(services) == (services \div 2) % 2 = 1

\* srtp_cipher_encrypt / srtp_cipher_decrypt of a non-AEAD cipher
cipher_crypt(cipher, iv, buf) ==
  IF cipher.type = "SRTP_AES_ICM" THEN icm_crypt(cipher.key, iv, buf) ELSE buf

roc_of(est) == est \div seq_num_max
seq_of(est) == est % seq_num_max

\* the IV srtp_protect / srtp_unprotect hand to a non-AEAD RTP cipher
rtp_iv(stream, ssrc, est) ==
  IF stream.rtp_cipher.type \in {"SRTP_AES_ICM", "SRTP_AES_256_ICM"}
  THEN Zeros(4) \o ssrc \o htonl(roc_of(est)) \o htons(seq_of(est)) \o Zeros(2)
  ELSE Zeros(8) \o Zeros(2) \o htonl(roc_of(est)) \o htons(seq_of(est))

\* srtp_calc_aead_iv: 00 00 | SSRC | ROC | SEQ, xor the RTP salt
srtp_calc_aead_iv(stream, est, ssrc) ==
  XorSeq(Zeros(2) \o ssrc \o htonl(roc_of(est)) \o htons(seq_of(est)), stream.salt)
  \o Zeros(4)

\* a sender that reuses an index whatever allow_repeat_tx says
sender_replay_reuse(stream, delta) ==
  LET status == srtp_rdbx_check(stream.rtp_rdbx, delta)
  IN IF status # "ok"
     THEN IF status # "replay_fail"
          THEN <<status, stream.rtp_rdbx>>
          ELSE <<"ok", stream.rtp_rdbx>>
     ELSE <<"ok", srtp_rdbx_add_index(stream.rtp_rdbx, delta)>>

\* a sender that lets every refused index through when allow_repeat_tx is set
sender_replay_any(stream, delta) ==
  LET status == srtp_rdbx_check(stream.rtp_rdbx, delta)
  IN IF status # "ok"
     THEN IF stream.allow_repeat_tx = 0
          THEN <<status, stream.rtp_rdbx>>
          ELSE <<"ok", stream.rtp_rdbx>>
     ELSE <<"ok", srtp_rdbx_add_index(stream.rtp_rdbx, delta)>>

\* the sender's replay step: <<status, rdbx>>; status "ok" means go on
sender_replay(stream, delta) ==
  LET status == srtp_rdbx_check(stream.rtp_rdbx, delta)
  IN IF status # "ok"
     THEN IF status # "replay_fail" \/ stream.allow_repeat_tx = 0
          THEN <<status, stream.rtp_rdbx>>
          ELSE <<"ok", stream.rtp_rdbx>>
     ELSE <<"ok", srtp_rdbx_add_index(stream.rtp_rdbx, delta)>>

\* srtp_protect_aead on stream i of the list
srtp_protect_aead(ctx, i, pkt, events, info) ==
  LET stream == ctx.stream_list[i]
      k == key_limit_update(ctx, stream)
      ev1 == IF k[1] = "normal" THEN events
             ELSE IF k[1] = "hard_limit"
             THEN Append(events, Event("event_key_hard_limit", stream))
             ELSE Append(events, Event("event_key_soft_limit", stream))
      tag_len == stream.rtp_auth.tag_len
      enc_start == rtp_enc_start(pkt)
      e == srtp_rdbx_estimate_index(stream.rtp_rdbx, ntohs(hdr_seq(pkt)))
      rp == sender_replay(stream, e[2])
      ctx2 == [k[2] EXCEPT !.stream_list[i].rtp_rdbx = rp[2]]
      iv == srtp_calc_aead_iv(stream, e[1], rtp_hdr_ssrc(pkt))
      aad == SubSeq(pkt, 1, enc_start)
      ct == icm_crypt(stream.rtp_cipher.key, iv, SubSeq(pkt, enc_start + 1, Len(pkt)))
      tag == gcm_tag(stream.rtp_cipher.key, iv, aad, ct, tag_len)
  IN IF k[1] = "hard_limit" THEN Ret("key_expired", k[2], pkt, ev1, info)
     ELSE IF ~(enc_start < Len(pkt)) THEN Ret("parse_err", k[2], pkt, ev1, info)
     ELSE IF rp[1] # "ok" THEN Ret(rp[1], k[2], pkt, ev1, info)
     ELSE Ret("ok", ctx2, aad \o ct \o tag, ev1, info)

\* the CTR + HMAC part of srtp_protect on stream i of the list
srtp_protect_ctr(ctx, i, pkt, events, info) ==
  LET stream == ctx.stream_list[i]
      k == key_limit_update(ctx, stream)
      ev1 == IF k[1] = "normal" THEN events
             ELSE IF k[1] = "hard_limit"
             THEN Append(events, Event("event_key_hard_limit", stream))
             ELSE Append(events, Event("event_key_soft_limit", stream))
      tag_len == stream.rtp_auth.tag_len
      conf == has_conf(stream.rtp_services)
      auth == has_auth(stream.rtp_services)
      enc_start == rtp_enc_start(pkt)
      e == srtp_rdbx_estimate_index(stream.rtp_rdbx, ntohs(hdr_seq(pkt)))
      rp == sender_replay(stream, e[2])
      ctx2 == [k[2] EXCEPT !.stream_list[i].rtp_rdbx = rp[2]]
      iv == rtp_iv(stream, rtp_hdr_ssrc(pkt), e[1])
      enc == IF conf
             THEN SubSeq(pkt, 1, enc_start)
                  \o cipher_crypt(stream.rtp_cipher, iv, SubSeq(pkt, enc_start + 1, Len(pkt)))
             ELSE pkt
      tag == hmac_compute(stream.rtp_auth.key, enc \o htonl(roc_of(e[1])), tag_len)
  IN IF k[1] = "hard_limit" THEN Ret("key_expired", k[2], pkt, ev1, info)
     ELSE IF conf /\ hdr_x(pkt) = 1 /\ ~(enc_start < Len(pkt))
     THEN Ret("parse_err", k[2], pkt, ev1, info)
     ELSE IF rp[1] # "ok" THEN Ret(rp[1], k[2], pkt, ev1, info)
     ELSE Ret("ok", ctx2, IF auth THEN enc \o tag ELSE enc, ev1,
              info)

\* srtp_protect; mem_ok = FALSE: the allocation in srtp_stream_clone fails
srtp_protect(ctx, pkt, mem_ok) ==
  IF srtp_validate_rtp_header(pkt, Len(pkt)) # "ok"
  THEN Ret("bad_param", ctx, pkt, <<>>, NoInfo)
  ELSE IF Len(pkt) < octets_in_rtp_header
  THEN Ret("bad_param", ctx, pkt, <<>>, NoInfo)
  ELSE
    LET found == srtp_get_stream(ctx, rtp_hdr_ssrc(pkt))
    IN IF found = 0 /\ ctx.stream_template = <<>>
       THEN Ret("no_ctx", ctx, pkt, <<>>, NoInfo)
       ELSE IF found = 0 /\ ~mem_ok
       THEN Ret("alloc_fail", ctx, pkt, <<>>, NoInfo)
       ELSE
         LET ctx1 == IF found = 0
                     THEN [ctx EXCEPT !.stream_list =
                             <<[srtp_stream_clone(ctx.stream_template[1], rtp_hdr_ssrc(pkt))
                                  EXCEPT !.direction = "dir_srtp_sender"]>> \o @]
                     ELSE ctx
             i == IF found = 0 THEN 1 ELSE found
             info == [NoInfo EXCEPT !.resolved = IF found = 0 THEN "clone" ELSE "list",
                                    !.dir = ctx1.stream_list[i].direction,
                                    !.checked = TRUE]
             d == check_sender(ctx1.stream_list[i])
             ctx2 == [ctx1 EXCEPT !.stream_list[i] = d[1]]
         IN IF is_aead(d[1])
            THEN srtp_protect_aead(ctx2, i, pkt, d[2], info)
            ELSE srtp_protect_ctr(ctx2, i, pkt, d[2], info)


\* the stream an unprotect call works on: list entry found, or the template
resolved_stream(ctx, found) ==
  IF found = 0 THEN ctx.stream_template[1] ELSE ctx.stream_list[found]

\* a receiver that forgets the commit
rdbx_commit_skipped(rdbx, delta) == rdbx

\* the receiver's commit: add the packet index into the replay database
rdbx_commit(rdbx, delta) == srtp_rdbx_add_index(rdbx, delta)

\* The tail of srtp_unprotect and of srtp_unprotect_aead, after the tag has
\* verified and the payload is decrypted: direction check, promotion of a
\* provisional stream, replay-database commit, length adjustment.  pkt_dec is
\* the buffer after decryption (tag still counted), tag_len the tag length.
srtp_unprotect_finish(ctx, found, ssrc, pkt_dec, tag_len, delta, events, info, mem_ok) ==
  LET d == check_receiver(resolved_stream(ctx, found))
      ctx1 == IF found = 0
              THEN [ctx EXCEPT !.stream_template = <<d[1]>>]
              ELSE [ctx EXCEPT !.stream_list[found] = d[1]]
      ev == events \o d[2]
      info1 == [info EXCEPT !.checked = TRUE]
      ctx2 == IF found = 0
              THEN [ctx1 EXCEPT !.stream_list = <<srtp_stream_clone(d[1], ssrc)>> \o @]
              ELSE ctx1
      i == IF found = 0 THEN 1 ELSE found
  IN IF found = 0 /\ ~mem_ok
     THEN Ret("alloc_fail", ctx1, pkt_dec, ev, info1)
     ELSE Ret("ok", [ctx2 EXCEPT !.stream_list[i].rtp_rdbx = rdbx_commit(@, delta)],
              SubSeq(pkt_dec, 1, Len(pkt_dec) - tag_len), ev, info1)

\* srtp_unprotect_aead
srtp_unprotect_aead(ctx, found, delta, est, pkt, info, mem_ok) ==
  LET stream == resolved_stream(ctx, found)
      tag_len == stream.rtp_auth.tag_len
      iv == srtp_calc_aead_iv(stream, est, rtp_hdr_ssrc(pkt))
      enc_start == rtp_enc_start(pkt)
      enc_octet_len == Len(pkt) - enc_start
      k == key_limit_update(ctx, stream)
      ev1 == IF k[1] = "normal" THEN <<>>
             ELSE IF k[1] = "hard_limit"
             THEN <<Event("event_key_hard_limit", stream)>>
             ELSE <<Event("event_key_soft_limit", stream)>>
      aad == SubSeq(pkt, 1, enc_start)
      ct == SubSeq(pkt, enc_start + 1, Len(pkt) - tag_len)
      tag == SubSeq(pkt, Len(pkt) - tag_len + 1, Len(pkt))
      pt == icm_crypt(stream.rtp_cipher.key, iv, ct)
  IN IF ~(enc_start < Len(pkt)) THEN Ret("parse_err", ctx, pkt, <<>>, info)
     ELSE IF enc_octet_len < tag_len THEN Ret("cipher_fail", ctx, pkt, <<>>, info)
     ELSE IF k[1] = "hard_limit" THEN Ret("key_expired", k[2], pkt, ev1, info)
     ELSE auth_gate(
            octet_string_is_eq(gcm_tag(stream.rtp_cipher.key, iv, aad, ct, tag_len),
                               tag, tag_len),
            k[2], pkt, ev1, info,
            srtp_unprotect_finish(k[2], found, rtp_hdr_ssrc(pkt), aad \o pt \o tag,
                                  tag_len, delta, ev1, info, mem_ok))

\* the CTR + HMAC part of srtp_unprotect
srtp_unprotect_ctr(ctx, found, delta, est, pkt, info, mem_ok) ==
  LET stream == resolved_stream(ctx, found)
      tag_len == stream.rtp_auth.tag_len
      iv == rtp_iv(stream, rtp_hdr_ssrc(pkt), est)
      conf == has_conf(stream.rtp_services)
      auth == has_auth(stream.rtp_services)
      enc_start == rtp_enc_start(pkt)
      enc_octet_len == Len(pkt) - tag_len - enc_start
      tmp_tag == hmac_compute(stream.rtp_auth.key,
                              SubSeq(pkt, 1, Len(pkt) - tag_len) \o htonl(roc_of(est)),
                              tag_len)
      auth_tag == SubSeq(pkt, Len(pkt) - tag_len + 1, Len(pkt))
      k == key_limit_update(ctx, stream)
      ev1 == IF k[1] = "normal" THEN <<>>
             ELSE IF k[1] = "hard_limit"
             THEN <<Event("event_key_hard_limit", stream)>>
             ELSE <<Event("event_key_soft_limit", stream)>>
      ub == conf /\ enc_octet_len < 0
      dec == IF conf /\ ~ub
             THEN SubSeq(pkt, 1, enc_start)
                  \o cipher_crypt(stream.rtp_cipher, iv,
                                  SubSeq(pkt, enc_start + 1, enc_start + enc_octet_len))
                  \o SubSeq(pkt, enc_start + enc_octet_len + 1, Len(pkt))
             ELSE pkt
  IN IF conf /\ ~(enc_start < Len(pkt)) THEN Ret("parse_err", ctx, pkt, <<>>, info)
     ELSE auth_gate(
            auth /\ octet_string_is_eq(tmp_tag, auth_tag, tag_len),
            ctx, pkt, <<>>, info,
            IF k[1] = "hard_limit" THEN Ret("key_expired", k[2], pkt, ev1, info)
            ELSE srtp_unprotect_finish(k[2], found, rtp_hdr_ssrc(pkt), dec, tag_len,
                                       delta, ev1, [info EXCEPT !.ub = ub], mem_ok))

\* srtp_unprotect; mem_ok = FALSE: the allocation in srtp_stream_clone fails
srtp_unprotect(ctx, pkt, mem_ok) ==
  IF srtp_validate_rtp_header(pkt, Len(pkt)) # "ok"
  THEN Ret("bad_param", ctx, pkt, <<>>, NoInfo)
  ELSE IF Len(pkt) < octets_in_rtp_header
  THEN Ret("bad_param", ctx, pkt, <<>>, NoInfo)
  ELSE
    LET found == srtp_get_stream(ctx, rtp_hdr_ssrc(pkt))
    IN IF found = 0 /\ ctx.stream_template = <<>>
       THEN Ret("no_ctx", ctx, pkt, <<>>, NoInfo)
       ELSE
         LET stream == resolved_stream(ctx, found)
             e == IF found = 0
                  THEN <<ntohs(hdr_seq(pkt)), ntohs(hdr_seq(pkt))>>
                  ELSE srtp_rdbx_estimate_index(stream.rtp_rdbx, ntohs(hdr_seq(pkt)))
             status == IF found = 0 THEN "ok" ELSE srtp_rdbx_check(stream.rtp_rdbx, e[2])
             info == [NoInfo EXCEPT !.resolved = IF found = 0 THEN "template" ELSE "list",
                                    !.dir = stream.direction]
         IN IF status # "ok" THEN Ret(status, ctx, pkt, <<>>, info)
            ELSE IF is_aead(stream)
            THEN srtp_unprotect_aead(ctx, found, e[2], e[1], pkt, info, mem_ok)
            ELSE srtp_unprotect_ctr(ctx, found, e[2], e[1], pkt, info, mem_ok)


(***************************************************************************)
(* SRTCP.  An SRTCP packet is header | payload | trailer | tag on the      *)
(* CTR + HMAC path and header | payload | tag | trailer on the AEAD path;  *)
(* the trailer is the E bit followed by the 31-bit index, big-endian.      *)
(***************************************************************************)
SRTCP_E_BYTE_BIT == 128

\* a trailer that always carries the E bit
rtcp_trailer_e(conf, seq_num) ==
  LET b == htonl(seq_num)
  IN <<b[1] + (IF b[1] < SRTCP_E_BYTE_BIT THEN SRTCP_E_BYTE_BIT ELSE 0), b[2], b[3], b[4]>>

\* *trailer = htonl(SRTCP_E_BIT) or 0; *trailer |= htonl(seq_num)
rtcp_trailer(conf, seq_num) ==
  LET b == htonl(seq_num)
  IN <<b[1] + (IF conf /\ b[1] < SRTCP_E_BYTE_BIT THEN SRTCP_E_BYTE_BIT ELSE 0),
       b[2], b[3], b[4]>>

\* ntohl(*trailer) & SRTCP_INDEX_MASK
trailer_index(trailer) ==
  (trailer[1] % SRTCP_E_BYTE_BIT) * 16777216 + trailer[2] * 65536
  + trailer[3] * 256 + trailer[4]

\* *((unsigned char *) trailer) & SRTCP_E_BYTE_BIT
trailer_e_bit(trailer) == trailer[1] >= SRTCP_E_BYTE_BIT

\* the IV srtp_protect_rtcp / srtp_unprotect_rtcp hand to the RTCP cipher
rtcp_iv(stream, ssrc, seq_num) ==
  IF stream.rtcp_cipher.type = "SRTP_AES_ICM"
  THEN Zeros(4) \o ssrc \o htonl(seq_num \div 65536) \o htons(seq_num % 65536) \o Zeros(2)
  ELSE Zeros(12) \o htonl(seq_num)

\* srtp_calc_aead_iv_srtcp.  in.v32[2] = 0x7FFFFFFF & htonl(seq_num) is
\* computed on the host's integers: on a little-endian host the mask clears
\* the top bit of the last byte in memory, the low byte of the index.
srtp_calc_aead_iv_srtcp(stream, seq_num, ssrc) ==
  LET b == htonl(seq_num)
  IN XorSeq(Zeros(2) \o ssrc \o Zeros(2) \o <<b[1], b[2], b[3], b[4] % 128>>,
            stream.c_salt)
     \o Zeros(4)

\* srtp_protect_rtcp_aead on stream i of the list
srtp_protect_rtcp_aead(ctx, i, pkt, events, info) ==
  LET stream == ctx.stream_list[i]
      tag_len == stream.rtcp_auth.tag_len
      conf == has_conf(stream.rtcp_services)
      inc == srtp_rdb_increment(stream.rtcp_rdb)
      seq_num == srtp_rdb_get_value(inc[2])
      trailer == rtcp_trailer(conf, seq_num)
      iv == srtp_calc_aead_iv_srtcp(stream, seq_num, rtcp_hdr_ssrc(pkt))
      hdr == SubSeq(pkt, 1, octets_in_rtcp_header)
      aad == (IF conf THEN hdr ELSE pkt) \o Reverse(trailer)
      ct == IF conf
            THEN icm_crypt(stream.rtcp_cipher.key, iv,
                           SubSeq(pkt, octets_in_rtcp_header + 1, Len(pkt)))
            ELSE <<>>
      tag == gcm_tag(stream.rtcp_cipher.key, iv, aad, ct, tag_len)
      ctx1 == [ctx EXCEPT !.stream_list[i].rtcp_rdb = inc[2]]
  IN IF inc[1] # "ok" THEN Ret(inc[1], ctx1, pkt, events, info)
     ELSE Ret("ok", ctx1, (IF conf THEN hdr \o ct ELSE pkt) \o tag \o trailer, events,
              info)

\* the CTR + HMAC part of srtp_protect_rtcp on stream i of the list
srtp_protect_rtcp_ctr(ctx, i, pkt, events, info) ==
  LET stream == ctx.stream_list[i]
      tag_len == stream.rtcp_auth.tag_len
      conf == has_conf(stream.rtcp_services)
      inc == srtp_rdb_increment(stream.rtcp_rdb)
      seq_num == srtp_rdb_get_value(inc[2])
      trailer == rtcp_trailer(conf, seq_num)
      iv == rtcp_iv(stream, rtcp_hdr_ssrc(pkt), seq_num)
      enc == IF conf
             THEN SubSeq(pkt, 1, octets_in_rtcp_header)
                  \o cipher_crypt(stream.rtcp_cipher, iv,
                                  SubSeq(pkt, octets_in_rtcp_header + 1, Len(pkt)))
             ELSE pkt
      tag == hmac_compute(stream.rtcp_auth.key, enc \o trailer, tag_len)
      ctx1 == [ctx EXCEPT !.stream_list[i].rtcp_rdb = inc[2]]
  IN IF inc[1] # "ok" THEN Ret(inc[1], ctx1, pkt, events, info)
     ELSE Ret("ok", ctx1, enc \o trailer \o tag, events, info)

\* srtp_protect_rtcp; mem_ok = FALSE: the allocation in srtp_stream_clone fails
srtp_protect_rtcp(ctx, pkt, mem_ok) ==
  IF Len(pkt) < octets_in_rtcp_header
  THEN Ret("bad_param", ctx, pkt, <<>>, NoInfo)
  ELSE
    LET found == srtp_get_stream(ctx, rtcp_hdr_ssrc(pkt))
    IN IF found = 0 /\ ctx.stream_template = <<>>
       THEN Ret("no_ctx", ctx, pkt, <<>>, NoInfo)
       ELSE IF found = 0 /\ ~mem_ok
       THEN Ret("alloc_fail", ctx, pkt, <<>>, NoInfo)
       ELSE
         LET ctx1 == IF found = 0
                     THEN [ctx EXCEPT !.stream_list =
                             <<srtp_stream_clone(ctx.stream_template[1], rtcp_hdr_ssrc(pkt))>>
                             \o @]
                     ELSE ctx
             i == IF found = 0 THEN 1 ELSE found
             info == [NoInfo EXCEPT !.resolved = IF found = 0 THEN "clone" ELSE "list",
                                    !.dir = ctx1.stream_list[i].direction,
                                    !.checked = TRUE]
             d == check_sender(ctx1.stream_list[i])
             ctx2 == [ctx1 EXCEPT !.stream_list[i] = d[1]]
         IN IF is_aead(d[1])
            THEN srtp_protect_rtcp_aead(ctx2, i, pkt, d[2], info)
            ELSE srtp_protect_rtcp_ctr(ctx2, i, pkt, d[2], info)

\* an RTCP receiver that forgets the commit
rdb_commit_skipped(rdb, seq_num) == rdb

\* the receiver's RTCP commit: add seq_num to the rdb
rdb_commit(rdb, seq_num) == srtp_rdb_add_index(rdb, seq_num)

\* The tail of srtp_unprotect_rtcp and of srtp_unprotect_rtcp_aead, after the
\* tag has verified, the payload is decrypted and the length is decreased:
\* direction check, promotion of a provisional stream, replay-database commit.
srtp_unprotect_rtcp_finish(ctx, found, ssrc, pkt_out, seq_num, info, mem_ok) ==
  LET d == check_receiver(resolved_stream(ctx, found))
      ctx1 == IF found = 0
              THEN [ctx EXCEPT !.stream_template = <<d[1]>>]
              ELSE [ctx EXCEPT !.stream_list[found] = d[1]]
      info1 == [info EXCEPT !.checked = TRUE]
      ctx2 == IF found = 0
              THEN [ctx1 EXCEPT !.stream_list = <<srtp_stream_clone(d[1], ssrc)>> \o @]
              ELSE ctx1
      i == IF found = 0 THEN 1 ELSE found
  IN IF found = 0 /\ ~mem_ok
     THEN Ret("alloc_fail", ctx1, pkt_out, d[2], info1)
     ELSE Ret("ok", [ctx2 EXCEPT !.stream_list[i].rtcp_rdb = rdb_commit(@, seq_num)],
              pkt_out, d[2], info1)

\* srtp_unprotect_rtcp_aead
srtp_unprotect_rtcp_aead(ctx, found, pkt, info, mem_ok) ==
  LET stream == resolved_stream(ctx, found)
      tag_len == stream.rtcp_auth.tag_len
      len == Len(pkt)
      trailer == SubSeq(pkt, len - sizeof_srtcp_trailer_t + 1, len)
      encrypted == trailer_e_bit(trailer)
      seq_num == trailer_index(trailer)
      iv == srtp_calc_aead_iv_srtcp(stream, seq_num, rtcp_hdr_ssrc(pkt))
      body_end == len - tag_len - sizeof_srtcp_trailer_t
      hdr == SubSeq(pkt, 1, octets_in_rtcp_header)
      aad == (IF encrypted THEN hdr ELSE SubSeq(pkt, 1, body_end)) \o Reverse(trailer)
      ct == IF encrypted THEN SubSeq(pkt, octets_in_rtcp_header + 1, body_end) ELSE <<>>
      auth_tag == SubSeq(pkt, body_end + 1, body_end + tag_len)
      pt == icm_crypt(stream.rtcp_cipher.key, iv, ct)
  IN IF srtp_rdb_check(stream.rtcp_rdb, seq_num) # "ok"
     THEN Ret(srtp_rdb_check(stream.rtcp_rdb, seq_num), ctx, pkt, <<>>, info)
     ELSE auth_gate(
            octet_string_is_eq(gcm_tag(stream.rtcp_cipher.key, iv, aad, ct, tag_len),
                               auth_tag, tag_len),
            ctx, pkt, <<>>, info,
            srtp_unprotect_rtcp_finish(
              ctx, found, rtcp_hdr_ssrc(pkt),
              IF encrypted THEN hdr \o pt ELSE SubSeq(pkt, 1, body_end),
              seq_num, info, mem_ok))

\* the CTR + HMAC part of srtp_unprotect_rtcp
srtp_unprotect_rtcp_ctr(ctx, found, pkt, info, mem_ok) ==
  LET stream == resolved_stream(ctx, found)
      tag_len == stream.rtcp_auth.tag_len
      len == Len(pkt)
      sec_serv_confidentiality ==
        stream.rtcp_services = sec_serv_conf \/ stream.rtcp_services = sec_serv_conf_and_auth
      enc_octet_len == len - (octets_in_rtcp_header + tag_len + sizeof_srtcp_trailer_t)
      trailer == SubSeq(pkt, len - tag_len - sizeof_srtcp_trailer_t + 1, len - tag_len)
      e_bit_in_packet == trailer_e_bit(trailer)
      auth_len == len - tag_len
      auth_tag == SubSeq(pkt, auth_len + 1, len)
      seq_num == trailer_index(trailer)
      iv == rtcp_iv(stream, rtcp_hdr_ssrc(pkt), seq_num)
      tmp_tag == hmac_compute(stream.rtcp_auth.key, SubSeq(pkt, 1, auth_len), tag_len)
      dec == IF sec_serv_confidentiality
             THEN SubSeq(pkt, 1, octets_in_rtcp_header)
                  \o cipher_crypt(stream.rtcp_cipher, iv,
                                  SubSeq(pkt, octets_in_rtcp_header + 1,
                                         octets_in_rtcp_header + enc_octet_len))
             ELSE SubSeq(pkt, 1, octets_in_rtcp_header + enc_octet_len)
  IN IF e_bit_in_packet # sec_serv_confidentiality
     THEN Ret("cant_check", ctx, pkt, <<>>, info)
     ELSE IF srtp_rdb_check(stream.rtcp_rdb, seq_num) # "ok"
     THEN Ret(srtp_rdb_check(stream.rtcp_rdb, seq_num), ctx, pkt, <<>>, info)
     ELSE auth_gate(
            octet_string_is_eq(tmp_tag, auth_tag, tag_len),
            ctx, pkt, <<>>, info,
            srtp_unprotect_rtcp_finish(ctx, found, rtcp_hdr_ssrc(pkt), dec, seq_num,
                                       info, mem_ok))

\* a receiver whose second length check forgets the trailer
srtp_unprotect_rtcp_short(ctx, pkt, mem_ok) ==
  IF Len(pkt) < octets_in_rtcp_header + sizeof_srtcp_trailer_t
  THEN Ret("bad_param", ctx, pkt, <<>>, NoInfo)
  ELSE
    LET found == srtp_get_stream(ctx, rtcp_hdr_ssrc(pkt))
    IN IF found = 0 /\ ctx.stream_template = <<>>
       THEN Ret("no_ctx", ctx, pkt, <<>>, NoInfo)
       ELSE
         LET stream == resolved_stream(ctx, found)
             info == [NoInfo EXCEPT !.resolved = IF found = 0 THEN "template" ELSE "list",
                                    !.dir = stream.direction]
         IN IF Len(pkt) < octets_in_rtcp_header + stream.rtcp_auth.tag_len
            THEN Ret("bad_param", ctx, pkt, <<>>, info)
            ELSE IF is_aead(stream)
            THEN srtp_unprotect_rtcp_aead(ctx, found, pkt, info, mem_ok)
            ELSE srtp_unprotect_rtcp_ctr(ctx, found, pkt, info, mem_ok)

\* srtp_unprotect_rtcp; mem_ok = FALSE: the allocation in srtp_stream_clone fails
srtp_unprotect_rtcp(ctx, pkt, mem_ok) ==
  IF Len(pkt) < octets_in_rtcp_header + sizeof_srtcp_trailer_t
  THEN Ret("bad_param", ctx, pkt, <<>>, NoInfo)
  ELSE
    LET found == srtp_get_stream(ctx, rtcp_hdr_ssrc(pkt))
    IN IF found = 0 /\ ctx.stream_template = <<>>
       THEN Ret("no_ctx", ctx, pkt, <<>>, NoInfo)
       ELSE
         LET stream == resolved_stream(ctx, found)
             info == [NoInfo EXCEPT !.resolved = IF found = 0 THEN "template" ELSE "list",
                                    !.dir = stream.direction]
         IN IF Len(pkt) < octets_in_rtcp_header + stream.rtcp_auth.tag_len
                          + sizeof_srtcp_trailer_t
            THEN Ret("bad_param", ctx, pkt, <<>>, info)
            ELSE IF is_aead(stream)
            THEN srtp_unprotect_rtcp_aead(ctx, found, pkt, info, mem_ok)
            ELSE srtp_unprotect_rtcp_ctr(ctx, found, pkt, info, mem_ok)

(***************************************************************************)
(* The state machine.                                                      *)
(*   session - the two sessions (srtp_ctx_t)                               *)
(*   wire    - the last packet a protect call produced: its bytes, the     *)
(*             plaintext it was made from, the session and the stream      *)
(*             context that produced it                                    *)
(*   last    - the last API call: operation, session, returned status,     *)
(*             events delivered, trace, the field of the packet that was   *)
(*             changed on the way ("none" if it arrived intact), and the   *)
(*             packet the call returned when it returned ok; for the       *)
(*             registry calls, the arguments                               *)
(*   ncalls  - number of API calls made                                    *)
(*   crypto  - the crypto policy the application configures streams with   *)
(*   heap    - what each session has allocated and released                *)
(***************************************************************************)
SeqStep == 300
PayloadByte == 171
Payload(n) == [i \in 1..n |-> PayloadByte]
TamperMasks == {1, 16, 128}

\* the plaintext packets the application sends: the RTP packet with n octets
\* of payload has sequence number n * SeqStep, so that a later packet lies
\* outside the replay window of an earlier one
RtpPlaintexts == {RtpPacket(0, 0, n * SeqStep, v, Payload(n)) :
                    n \in 0..MaxPayload, v \in SsrcValues}
RtcpPlaintexts == {RtcpPacket(v, Payload(MaxPayload)) : v \in SsrcValues}

\* the policy lists the sessions are created from
CreateLists(kind, k) ==
  {<<>>,
   <<Policy(kind, "ssrc_specific", 1, k)>>,
   <<Policy(kind, "ssrc_any_inbound", 0, k)>>,
   <<Policy(kind, "ssrc_any_outbound", 0, k)>>}

NoWire == [kind |-> "none", pkt |-> <<>>, plain |-> <<>>, from |-> 0, stream |-> <<>>]

NoCall ==
  [op |-> "none", sess |-> 0, status |-> "ok", events |-> <<>>, info |-> NoInfo,
   tamper |-> "none", out |-> <<>>, arg |-> <<>>, ssrc |-> <<>>, len_in |-> 0,
   len |-> 0]

\* the record of a data-path call on packet pkt whose SSRC field is ssrc: len_in
\* is *pkt_octet_len at the call, len its value at the return
Call(op, s, r, t, pkt, ssrc) ==
  [op |-> op, sess |-> s, status |-> r.status, events |-> r.events, info |-> r.info,
   tamper |-> t, out |-> IF r.status = "ok" THEN r.pkt ELSE <<>>, arg |-> <<>>,
   ssrc |-> ssrc, len_in |-> Len(pkt), len |-> Len(r.pkt)]

\* one byte of the packet changed on the way: t = <<position, xor mask>>
Tamper(pkt, t) ==
  IF t = <<>> THEN pkt ELSE [pkt EXCEPT ![t[1]] = Xor8(@, t[2])]

Tampers(pkt) == {<<>>} \cup {<<i, m>> : i \in 1..Len(pkt), m \in TamperMasks}

\* the field of an SRTP packet that position i lies in
RtpField(i) ==
  IF i = 1 THEN "vpxcc" ELSE IF i = 2 THEN "mpt" ELSE IF i <= 4 THEN "seq"
  ELSE IF i <= 8 THEN "ts" ELSE IF i <= 12 THEN "ssrc" ELSE "body"

TamperedRtpField(t) == IF t = <<>> THEN "none" ELSE RtpField(t[1])

\* the field of an SRTCP packet of length len that position i lies in, for a
\* sender using crypto policy kind (the trailer is last on the AEAD path and
\* before the tag otherwise)
RtcpField(i, len, kind) ==
  LET p == CryptoPolicy(kind)
      after == IF p.cipher_type = "SRTP_AES_128_GCM" THEN 0 ELSE p.auth_tag_len
      trailer_start == len - after - sizeof_srtcp_trailer_t + 1
  IN IF i <= 4 THEN "hdr" ELSE IF i <= 8 THEN "ssrc"
     ELSE IF i = trailer_start THEN "trailer_e"
     ELSE IF i > trailer_start /\ i < trailer_start + sizeof_srtcp_trailer_t THEN "trailer"
     ELSE "body"

TamperedRtcpField(t, len, kind) ==
  IF t = <<>> THEN "none" ELSE RtcpField(t[1], len, kind)

\* can srtp_stream_clone be reached (and so fail) in a call for this ssrc?
MayAlloc(ctx, ssrc) ==
  IF srtp_get_stream(ctx, ssrc) = 0 /\ ctx.stream_template # <<>>
  THEN BOOLEAN ELSE {TRUE}

Init ==
  /\ crypto \in PolicyKinds
  /\ \E l \in CreateLists(crypto, 1) : session = [s \in Sessions |-> srtp_create(l).ctx]
  /\ wire = NoWire
  /\ last = NoCall
  /\ ncalls = 0
  /\ heap = [s \in Sessions |-> HeapOf(session[s])]

AddStream(s) ==
  /\ ncalls < MaxCalls
  /\ \E type \in SsrcTypes, v \in SsrcValues, k \in MasterKeyIds, mem_ok \in BOOLEAN :
       LET r == srtp_add_stream(session[s],
                                Policy(crypto, type, IF type = "ssrc_specific" THEN v ELSE 0, k),
                                mem_ok)
       IN /\ session' = [session EXCEPT ![s] = r.ctx]
          /\ last' = [NoCall EXCEPT !.op = "add_stream", !.sess = s,
                                    !.status = r.status, !.arg = <<type, mem_ok>>]
          /\ heap' = [heap EXCEPT ![s] =
                        srtp_add_stream_heap(
                          @, session[s],
                          Policy(crypto, type, IF type = "ssrc_specific" THEN v ELSE 0, k),
                          mem_ok)]
  /\ ncalls' = ncalls + 1
  /\ UNCHANGED <<wire, crypto>>

RemoveStream(s) ==
  /\ ncalls < MaxCalls
  /\ \E v \in SsrcValues :
       LET r == srtp_remove_stream(session[s], v)
       IN /\ session' = [session EXCEPT ![s] = r.ctx]
          /\ last' = [NoCall EXCEPT !.op = "remove_stream", !.sess = s,
                                    !.status = r.status, !.arg = <<v>>]
          /\ heap' = [heap EXCEPT ![s] = srtp_remove_stream_heap(@, session[s], v)]
  /\ ncalls' = ncalls + 1
  /\ UNCHANGED <<wire, crypto>>

Protect(s) ==
  /\ ncalls < MaxCalls
  /\ \E pkt \in RtpPlaintexts :
     \E mem_ok \in MayAlloc(session[s], rtp_hdr_ssrc(pkt)) :
       LET r == srtp_protect(session[s], pkt, mem_ok)
           v == rtp_hdr_ssrc(pkt)
       IN /\ session' = [session EXCEPT ![s] = r.ctx]
          /\ last' = Call("protect", s, r, "none", pkt, v)
          /\ wire' = IF r.status = "ok"
                     THEN [kind |-> "rtp", pkt |-> r.pkt, plain |-> pkt, from |-> s,
                           stream |-> <<r.ctx.stream_list[srtp_get_stream(r.ctx, v)]>>]
                     ELSE wire
  /\ ncalls' = ncalls + 1
  /\ heap' = [heap EXCEPT ![s] = srtp_stream_clone_heap(@, session[s], session'[s])]
  /\ UNCHANGED crypto

Unprotect(s) ==
  /\ ncalls < MaxCalls
  /\ wire.kind = "rtp"
  /\ \E t \in Tampers(wire.pkt) :
     \E mem_ok \in MayAlloc(session[s], rtp_hdr_ssrc(Tamper(wire.pkt, t))) :
       LET r == srtp_unprotect(session[s], Tamper(wire.pkt, t), mem_ok)
       IN /\ session' = [session EXCEPT ![s] = r.ctx]
          /\ last' = Call("unprotect", s, r, TamperedRtpField(t),
                          Tamper(wire.pkt, t), rtp_hdr_ssrc(Tamper(wire.pkt, t)))
  /\ ncalls' = ncalls + 1
  /\ heap' = [heap EXCEPT ![s] = srtp_stream_clone_heap(@, session[s], session'[s])]
  /\ UNCHANGED <<wire, crypto>>

ProtectRtcp(s) ==
  /\ ncalls < MaxCalls
  /\ \E pkt \in RtcpPlaintexts :
     \E mem_ok \in MayAlloc(session[s], rtcp_hdr_ssrc(pkt)) :
       LET r == srtp_protect_rtcp(session[s], pkt, mem_ok)
           v == rtcp_hdr_ssrc(pkt)
       IN /\ session' = [session EXCEPT ![s] = r.ctx]
          /\ last' = Call("protect_rtcp", s, r, "none", pkt, v)
          /\ wire' = IF r.status = "ok"
                     THEN [kind |-> "rtcp", pkt |-> r.pkt, plain |-> pkt, from |-> s,
                           stream |-> <<r.ctx.stream_list[srtp_get_stream(r.ctx, v)]>>]
                     ELSE wire
  /\ ncalls' = ncalls + 1
  /\ heap' = [heap EXCEPT ![s] = srtp_stream_clone_heap(@, session[s], session'[s])]
  /\ UNCHANGED crypto

UnprotectRtcp(s) ==
  /\ ncalls < MaxCalls
  /\ wire.kind = "rtcp"
  /\ \E t \in Tampers(wire.pkt) :
     \E mem_ok \in MayAlloc(session[s], rtcp_hdr_ssrc(Tamper(wire.pkt, t))) :
       LET r == srtp_unprotect_rtcp(session[s], Tamper(wire.pkt, t), mem_ok)
       IN /\ session' = [session EXCEPT ![s] = r.ctx]
          /\ last' = Call("unprotect_rtcp", s, r,
                          TamperedRtcpField(t, Len(wire.pkt), crypto),
                          Tamper(wire.pkt, t), rtcp_hdr_ssrc(Tamper(wire.pkt, t)))
  /\ ncalls' = ncalls + 1
  /\ heap' = [heap EXCEPT ![s] = srtp_stream_clone_heap(@, session[s], session'[s])]
  /\ UNCHANGED <<wire, crypto>>

\* the data paths, on sessions as srtp_create built them
Next ==
  \/ \E s \in Sessions : Protect(s)
  \/ \E s \in Sessions : Unprotect(s)
  \/ \E s \in Sessions : ProtectRtcp(s)
  \/ \E s \in Sessions : UnprotectRtcp(s)

Spec == Init /\ [][Next]_vars

\* the whole API, on sessions created empty
ApiInit ==
  /\ crypto \in PolicyKinds
  /\ session = [s \in Sessions |-> srtp_create(<<>>).ctx]
  /\ wire = NoWire
  /\ last = NoCall
  /\ ncalls = 0
  /\ heap = [s \in Sessions |-> HeapOf(session[s])]

ApiNext ==
  \/ \E s \in Sessions : AddStream(s)
  \/ \E s \in Sessions : RemoveStream(s)
  \/ Next

ApiSpec == ApiInit /\ [][ApiNext]_vars

(***************************************************************************)
(* Sessions late in the life of their master key.  Each session has sent   *)
(* one packet and has then been called until its key usage counter is at   *)
(* n: srtp_protect of a packet whose index is already committed returns    *)
(* replay_fail after the counter is updated and changes nothing else.      *)
(***************************************************************************)
AgedCounts == {1, soft_limit + 1}

FirstPacket == RtpPacket(0, 0, 1, 1, Payload(1))

Aged(ctx, n) ==
  [ctx EXCEPT !.limits =
     [i \in DOMAIN @ |->
        [hi |-> 0, lo |-> n,
         state |-> IF n < soft_limit THEN "past_soft_limit" ELSE "normal"]]]

KeyInit ==
  /\ crypto \in PolicyKinds
  /\ \E l \in CreateLists(crypto, 1) \ {<<>>} :
     \E n \in [Sessions -> AgedCounts] :
       session = [s \in Sessions |->
                    Aged(srtp_protect(srtp_create(l).ctx, FirstPacket, TRUE).ctx, n[s])]
  /\ wire = NoWire
  /\ last = NoCall
  /\ ncalls = 1
  /\ heap = [s \in Sessions |-> HeapOf(session[s])]

KeyNext ==
  \/ \E s \in Sessions : Protect(s)
  \/ \E s \in Sessions : Unprotect(s)

KeySpec == KeyInit /\ [][KeyNext]_vars

(***************************************************************************)
(* A sender that chooses its sequence numbers freely: in order, out of     *)
(* order, repeated, far behind, and across the wrap of the 16-bit field.   *)
(* wire.sent[s] is the list of extended indices of the packets session s   *)
(* has put on the wire, oldest first.                                      *)
(***************************************************************************)
SendSeqs == {0, 1, 2, SeqStep, seq_num_max - 1}

RepeatTx == {0, 1}

SendLists(kind, a) ==
  {<<[Policy(kind, "ssrc_specific", 1, 1) EXCEPT !.allow_repeat_tx = a]>>,
   <<[Policy(kind, "ssrc_any_outbound", 0, 1) EXCEPT !.allow_repeat_tx = a]>>}

\* the stream srtp_protect resolves for pkt, as it is before the replay step
SendStream(ctx, pkt) ==
  LET found == srtp_get_stream(ctx, rtp_hdr_ssrc(pkt))
  IN IF found = 0
     THEN srtp_stream_clone(ctx.stream_template[1], rtp_hdr_ssrc(pkt))
     ELSE ctx.stream_list[found]

\* <<est, delta>> of srtp_protect for pkt
SendIndex(ctx, pkt) ==
  srtp_rdbx_estimate_index(SendStream(ctx, pkt).rtp_rdbx, ntohs(hdr_seq(pkt)))

SendInit ==
  /\ crypto \in PolicyKinds
  /\ \E a \in RepeatTx : \E l \in SendLists(crypto, a) :
       session = [s \in Sessions |-> srtp_create(l).ctx]
  /\ wire = [kind |-> "none", pkt |-> <<>>, plain |-> <<>>, from |-> 0,
             stream |-> <<>>, sent |-> [s \in Sessions |-> <<>>]]
  /\ last = NoCall
  /\ ncalls = 0
  /\ heap = [s \in Sessions |-> HeapOf(session[s])]

ProtectSeq(s) ==
  /\ ncalls < MaxCalls
  /\ \E seq \in SendSeqs, v \in SsrcValues :
     \E mem_ok \in MayAlloc(session[s], htonl(v)) :
       LET pkt == RtpPacket(0, 0, seq, v, Payload(1))
           r == srtp_protect(session[s], pkt, mem_ok)
       IN /\ session' = [session EXCEPT ![s] = r.ctx]
          /\ last' = [Call("protect", s, r, "none", pkt, rtp_hdr_ssrc(pkt))
                        EXCEPT !.arg = <<seq>>]
          /\ wire' = IF r.status = "ok"
                     THEN [kind |-> "rtp", pkt |-> r.pkt, plain |-> pkt, from |-> s,
                           stream |-> <<r.ctx.stream_list[srtp_get_stream(r.ctx, htonl(v))]>>,
                           sent |-> [wire.sent EXCEPT
                                       ![s] = Append(@, SendIndex(session[s], pkt)[1])]]
                     ELSE wire
  /\ ncalls' = ncalls + 1
  /\ heap' = [heap EXCEPT ![s] = srtp_stream_clone_heap(@, session[s], session'[s])]
  /\ UNCHANGED crypto

SendNext == \E s \in Sessions : ProtectSeq(s)

SendSpec == SendInit /\ [][SendNext]_vars

(***************************************************************************)
(* The RTCP calls on packets of any length: RTCP packets cut short before  *)
(* srtp_protect_rtcp, and SRTCP packets that arrive intact, cut short,     *)
(* with the E bit of the trailer inverted, or with an octet of the header  *)
(* changed.  last.arg holds the packet the call was made on.               *)
(***************************************************************************)
Cut(pkt, n) == SubSeq(pkt, 1, n)

\* the lengths an RTCP packet is cut to before srtp_protect_rtcp
RtcpCutLens(pkt) == {0, octets_in_rtcp_header - 1, octets_in_rtcp_header}

\* the lengths an SRTCP packet is cut to on the way
SrtcpCutLens(pkt) ==
  {0, octets_in_rtcp_header + sizeof_srtcp_trailer_t - 1,
   octets_in_rtcp_header + sizeof_srtcp_trailer_t, Len(pkt) - 2, Len(pkt) - 1}

\* where the sender using crypto policy kind writes the trailer
TrailerStart(pkt, kind) ==
  LET p == CryptoPolicy(kind)
      after == IF p.cipher_type = "SRTP_AES_128_GCM" THEN 0 ELSE p.auth_tag_len
  IN Len(pkt) - after - sizeof_srtcp_trailer_t + 1

\* the SRTCP packets a receiver may be handed when pkt was sent:
\* <<what happened on the way, packet>>
SrtcpArrivals(pkt, kind) ==
  {<<"none", pkt>>,
   <<"e_bit", Tamper(pkt, <<TrailerStart(pkt, kind), SRTCP_E_BYTE_BIT>>)>>,
   <<"hdr", Tamper(pkt, <<2, 1>>)>>}
  \cup {<<"cut", Cut(pkt, n)>> : n \in SrtcpCutLens(pkt)}

\* the SSRC field of an RTCP packet, if the packet is long enough to have one
RtcpSsrc(pkt) == IF Len(pkt) >= octets_in_rtcp_header THEN rtcp_hdr_ssrc(pkt) ELSE <<>>

ProtectRtcpAny(s) ==
  /\ ncalls < MaxCalls
  /\ \E plain \in RtcpPlaintexts :
     \E pkt \in {plain} \cup {Cut(plain, n) : n \in RtcpCutLens(plain)} :
     \E mem_ok \in MayAlloc(session[s], RtcpSsrc(pkt)) :
       LET r == srtp_protect_rtcp(session[s], pkt, mem_ok)
           v == RtcpSsrc(pkt)
       IN /\ session' = [session EXCEPT ![s] = r.ctx]
          /\ last' = [Call("protect_rtcp", s, r, IF pkt = plain THEN "none" ELSE "cut",
                            pkt, v) EXCEPT !.arg = <<pkt>>]
          /\ wire' = IF r.status = "ok"
                     THEN [kind |-> "rtcp", pkt |-> r.pkt, plain |-> pkt, from |-> s,
                           stream |-> <<r.ctx.stream_list[srtp_get_stream(r.ctx, v)]>>]
                     ELSE wire
  /\ ncalls' = ncalls + 1
  /\ heap' = [heap EXCEPT ![s] = srtp_stream_clone_heap(@, session[s], session'[s])]
  /\ UNCHANGED crypto

UnprotectRtcpAny(s) ==
  /\ ncalls < MaxCalls
  /\ wire.kind = "rtcp"
  /\ \E a \in SrtcpArrivals(wire.pkt, crypto) :
     \E mem_ok \in MayAlloc(session[s], RtcpSsrc(a[2])) :
       LET r == srtp_unprotect_rtcp(session[s], a[2], mem_ok)
       IN /\ session' = [session EXCEPT ![s] = r.ctx]
          /\ last' = [Call("unprotect_rtcp", s, r, a[1], a[2], RtcpSsrc(a[2]))
                        EXCEPT !.arg = <<a[2]>>]
  /\ ncalls' = ncalls + 1
  /\ heap' = [heap EXCEPT ![s] = srtp_stream_clone_heap(@, session[s], session'[s])]
  /\ UNCHANGED <<wire, crypto>>

RtcpNext ==
  \/ \E s \in Sessions : ProtectRtcpAny(s)
  \/ \E s \in Sessions : UnprotectRtcpAny(s)

RtcpSpec == Init /\ [][RtcpNext]_vars

(***************************************************************************)
(* Senders of RTCP at the start and near the end of the 31-bit SRTCP index *)
(* space: the streams of the list have sent n packets so far.              *)
(***************************************************************************)
RtcpSentCounts == {0, 2147483647 - 2}

SentRtcp(ctx, n) ==
  [ctx EXCEPT !.stream_list =
     [i \in DOMAIN @ |-> [@[i] EXCEPT !.rtcp_rdb.window_start = n]]]

IndexInit ==
  /\ crypto \in PolicyKinds
  /\ \E l \in CreateLists(crypto, 1) : \E n \in [Sessions -> RtcpSentCounts] :
       session = [s \in Sessions |-> SentRtcp(srtp_create(l).ctx, n[s])]
  /\ wire = NoWire
  /\ last = NoCall
  /\ ncalls = 0
  /\ heap = [s \in Sessions |-> HeapOf(session[s])]

IndexNext == \E s \in Sessions : ProtectRtcp(s)

IndexSpec == IndexInit /\ [][IndexNext]_vars

(***************************************************************************)
(* The RTP calls on packets of every header shape: cc CSRC entries, an     *)
(* extension of xlen words when x = 1, and a length that ends one octet    *)
(* before the end of the header, at its end, or one octet after it.        *)
(* last.arg is <<cc, x, xlen>> of the packet of the call.                  *)
(***************************************************************************)
CsrcCounts == {0, 1}
ExtensionLens == {0, 1}

\* an RTP packet with cc CSRC entries: V=2, X, CC, PT, sequence number 0,
\* timestamp 0, SSRC, the CSRC list, the extension header, then the payload
RtpPacketCc(cc, x, xlen, ssrc, payload) ==
  <<128 + 16 * x + cc, 96>> \o htons(0) \o Zeros(4) \o htonl(ssrc) \o Zeros(4 * cc)
  \o (IF x = 1 THEN <<190, 222>> \o htons(xlen) \o Zeros(4 * xlen) ELSE <<>>)
  \o payload

\* <<cc, x, xlen, packet>>
HdrShapes ==
  {<<cc, 0, 0>> : cc \in CsrcCounts}
  \cup {<<cc, 1, xlen>> : cc \in CsrcCounts, xlen \in ExtensionLens}

HdrPackets ==
  {<<h[1], h[2], h[3], Cut(RtpPacketCc(h[1], h[2], h[3], v, Payload(1)),
                           Len(RtpPacketCc(h[1], h[2], h[3], v, Payload(1))) - d)>> :
     h \in HdrShapes, v \in SsrcValues, d \in {0, 1, 2}}

\* the SSRC field of an RTP packet, if the packet is long enough to have one
RtpSsrc(pkt) == IF Len(pkt) >= octets_in_rtp_header THEN rtp_hdr_ssrc(pkt) ELSE <<>>

ProtectHdr(s) ==
  /\ ncalls < MaxCalls
  /\ \E h \in HdrPackets :
     \E mem_ok \in MayAlloc(session[s], RtpSsrc(h[4])) :
       LET r == srtp_protect(session[s], h[4], mem_ok)
       IN /\ session' = [session EXCEPT ![s] = r.ctx]
          /\ last' = [Call("protect", s, r, "none", h[4], RtpSsrc(h[4]))
                        EXCEPT !.arg = <<h[1], h[2], h[3]>>, !.out = <<>>]
  /\ ncalls' = ncalls + 1
  /\ heap' = [heap EXCEPT ![s] = srtp_stream_clone_heap(@, session[s], session'[s])]
  /\ UNCHANGED <<wire, crypto>>

UnprotectHdr(s) ==
  /\ ncalls < MaxCalls
  /\ \E h \in HdrPackets :
     \E mem_ok \in MayAlloc(session[s], RtpSsrc(h[4])) :
       LET r == srtp_unprotect(session[s], h[4], mem_ok)
       IN /\ session' = [session EXCEPT ![s] = r.ctx]
          /\ last' = [Call("unprotect", s, r, "none", h[4], RtpSsrc(h[4]))
                        EXCEPT !.arg = <<h[1], h[2], h[3]>>, !.out = <<>>]
  /\ ncalls' = ncalls + 1
  /\ heap' = [heap EXCEPT ![s] = srtp_stream_clone_heap(@, session[s], session'[s])]
  /\ UNCHANGED <<wire, crypto>>

HdrNext ==
  \/ \E s \in Sessions : ProtectHdr(s)
  \/ \E s \in Sessions : UnprotectHdr(s)

HdrSpec == Init /\ [][HdrNext]_vars

(***************************************************************************)
(* Streams added with a replay window size chosen by the caller, and       *)
(* srtp_protect cloning from the templates added so.  last.arg of an       *)
(* add_stream call is <<ssrc type, window_size>>.                          *)
(***************************************************************************)
WindowSizes == {0, 1, 63, 64, 32767, 32768}

AddStreamWindow(s) ==
  /\ ncalls < MaxCalls
  /\ \E type \in {"ssrc_specific", "ssrc_any_outbound"}, v \in SsrcValues,
        ws \in WindowSizes :
       LET r == srtp_add_stream(
                  session[s],
                  [Policy(crypto, type, IF type = "ssrc_specific" THEN v ELSE 0, 1)
                     EXCEPT !.window_size = ws],
                  TRUE)
       IN /\ session' = [session EXCEPT ![s] = r.ctx]
          /\ last' = [NoCall EXCEPT !.op = "add_stream", !.sess = s,
                                    !.status = r.status, !.arg = <<type, ws>>]
          /\ heap' = [heap EXCEPT ![s] =
                        srtp_add_stream_heap(
                          @, session[s],
                          [Policy(crypto, type, IF type = "ssrc_specific" THEN v ELSE 0, 1)
                             EXCEPT !.window_size = ws],
                          TRUE)]
  /\ ncalls' = ncalls + 1
  /\ UNCHANGED <<wire, crypto>>

WindowNext ==
  \/ \E s \in Sessions : AddStreamWindow(s)
  \/ \E s \in Sessions : Protect(s)

WindowSpec == ApiInit /\ [][WindowNext]_vars

(***************************************************************************)
(* The life of a session after srtp_create: streams added with any         *)
(* allow_repeat_tx, streams cloned from a template by srtp_protect,        *)
(* streams removed, and the session deallocated at the end.  No call is    *)
(* made on a session after srtp_dealloc has released it.                   *)
(* last.arg of an add_stream call is <<ssrc type, allow_repeat_tx>>.       *)
(***************************************************************************)
RepeatTxArgs == {1, 2}

AddStreamRepeat(s) ==
  /\ ncalls < MaxCalls
  /\ \E type \in SsrcTypes, v \in SsrcValues, a \in RepeatTxArgs :
       LET policy == [Policy(crypto, type, IF type = "ssrc_specific" THEN v ELSE 0, 1)
                        EXCEPT !.allow_repeat_tx = a]
           r == srtp_add_stream(session[s], policy, TRUE)
       IN /\ session' = [session EXCEPT ![s] = r.ctx]
          /\ last' = [NoCall EXCEPT !.op = "add_stream", !.sess = s,
                                    !.status = r.status, !.arg = <<type, a>>]
          /\ heap' = [heap EXCEPT ![s] = srtp_add_stream_heap(@, session[s], policy, TRUE)]
  /\ ncalls' = ncalls + 1
  /\ UNCHANGED <<wire, crypto>>

\* srtp_dealloc(session): nothing of the session is left to call
Dealloc(s) ==
  /\ ncalls < MaxCalls
  /\ session' = [session EXCEPT ![s] = EmptySession]
  /\ last' = [NoCall EXCEPT !.op = "dealloc", !.sess = s, !.status = "ok"]
  /\ heap' = [heap EXCEPT ![s] = srtp_dealloc(@, session[s])]
  /\ ncalls' = ncalls + 1
  /\ UNCHANGED <<wire, crypto>>

\* one policy with a MAC and one AEAD policy; both derive salts
LifeKinds == {"aes_cm_128_hmac_sha1_80", "aes_gcm_128_8_auth"}

LifeInit ==
  /\ crypto \in LifeKinds
  /\ \E l \in CreateLists(crypto, 1) : session = [s \in Sessions |-> srtp_create(l).ctx]
  /\ wire = NoWire
  /\ last = NoCall
  /\ ncalls = 0
  /\ heap = [s \in Sessions |-> HeapOf(session[s])]

LifeNext ==
  \/ \E s \in Sessions : heap[s].alive /\ AddStreamRepeat(s)
  \/ \E s \in Sessions : heap[s].alive /\ RemoveStream(s)
  \/ \E s \in Sessions : heap[s].alive /\ Protect(s)
  \/ \E s \in Sessions : heap[s].alive /\ Dealloc(s)

LifeSpec == LifeInit /\ [][LifeNext]_vars

(***************************************************************************)
(* The profile helpers, called on one policy object with any profile       *)
(* value.  last.out is <<the policy object>> as the last call left it (in  *)
(* the beginning: as the application filled it), last.arg of a call is     *)
(* <<profile, the policy object before the call>>.                         *)
(***************************************************************************)
Profiles ==
  {"srtp_profile_reserved", "srtp_profile_aes128_cm_sha1_80",
   "srtp_profile_aes128_cm_sha1_32", "srtp_profile_aes256_cm_sha1_80",
   "srtp_profile_aes256_cm_sha1_32", "srtp_profile_null_sha1_80",
   "srtp_profile_null_sha1_32", "srtp_profile_unknown"}

PolicyContents ==
  {CryptoPolicy(kind) : kind \in PolicyKinds}
    \cup {srtp_crypto_policy_set_aes_cm_128_hmac_sha1_32,
          srtp_crypto_policy_set_aes_cm_256_hmac_sha1_80,
          srtp_crypto_policy_set_aes_cm_256_hmac_sha1_32}

ProfileInit ==
  /\ crypto = "aes_cm_128_hmac_sha1_80"
  /\ session = [s \in Sessions |-> EmptySession]
  /\ wire = NoWire
  /\ \E policy \in PolicyContents : last = [NoCall EXCEPT !.out = <<policy>>]
  /\ ncalls = 0
  /\ heap = [s \in Sessions |-> HeapOf(session[s])]

SetFromProfileForRtp ==
  /\ ncalls < MaxCalls
  /\ \E profile \in Profiles :
       LET r == srtp_crypto_policy_set_from_profile_for_rtp(last.out[1], profile)
       IN last' = [NoCall EXCEPT !.op = "set_from_profile_for_rtp", !.status = r.status,
                                 !.arg = <<profile, last.out[1]>>, !.out = <<r.policy>>]
  /\ ncalls' = ncalls + 1
  /\ UNCHANGED <<session, wire, crypto, heap>>

SetFromProfileForRtcp ==
  /\ ncalls < MaxCalls
  /\ \E profile \in Profiles :
       LET r == srtp_crypto_policy_set_from_profile_for_rtcp(last.out[1], profile)
       IN last' = [NoCall EXCEPT !.op = "set_from_profile_for_rtcp", !.status = r.status,
                                 !.arg = <<profile, last.out[1]>>, !.out = <<r.policy>>]
  /\ ncalls' = ncalls + 1
  /\ UNCHANGED <<session, wire, crypto, heap>>

ProfileNext == SetFromProfileForRtp \/ SetFromProfileForRtcp

ProfileSpec == ProfileInit /\ [][ProfileNext]_vars

(***************************************************************************)
(* srtp_get_version in builds of any version.  last.arg is <<SRTP_VERSION, *)
(* its components>>, the components being <<major, minor, micro>> for a    *)
(* version string written as major.minor.micro and <<>> for any other.     *)
(***************************************************************************)
MajorValues == {0, 1, 2, 255}
MinorValues == {0, 5, 255}
MicroValues == {0, 1, 255, 256, 65535}

VersionString(major, minor, micro) ==
  FormatU(major) \o <<".">> \o FormatU(minor) \o <<".">> \o FormatU(micro)

Versions ==
  {<<VersionString(major, minor, micro), <<major, minor, micro>> >> :
     major \in MajorValues, minor \in MinorValues, micro \in MicroValues}
  \cup {<<text, <<>> >> :
          text \in {<<>>, <<"2">>, <<"2", ".", "0">>, <<"2", ".", "0", ".">>,
                    <<"x", ".", "0", ".", "1">>, <<"2", ".", "x", ".", "1">>,
                    <<"2", "0", "1">>, <<".", "2", ".", "0", ".", "1">>}}

VersionInit ==
  /\ crypto = "aes_cm_128_hmac_sha1_80"
  /\ session = [s \in Sessions |-> EmptySession]
  /\ wire = NoWire
  /\ \E v \in Versions : last = [NoCall EXCEPT !.arg = v]
  /\ ncalls = 0
  /\ heap = [s \in Sessions |-> HeapOf(session[s])]

GetVersion ==
  /\ ncalls < MaxCalls
  /\ last' = [last EXCEPT !.op = "get_version", !.out = srtp_get_version(last.arg[1])]
  /\ ncalls' = ncalls + 1
  /\ UNCHANGED <<session, wire, crypto, heap>>

VersionSpec == VersionInit /\ [][GetVersion]_vars

(***************************************************************************)
(* A long run of srtp_protect_rtcp calls of one session under the AEAD     *)
(* policy, early and late in the life of the SRTCP index.  wire.ivs is the *)
(* list of the IVs srtp_protect_rtcp_aead has handed to the RTCP cipher,   *)
(* oldest first, each with the SSRC, the SRTCP index and the RTCP salt it  *)
(* was computed from.                                                      *)
(***************************************************************************)
RunInit ==
  /\ crypto = "aes_gcm_128_8_auth"
  /\ \E l \in SendLists(crypto, 0) : \E n \in RtcpSentCounts :
       session = [s \in Sessions |-> SentRtcp(srtp_create(l).ctx, n)]
  /\ wire = [kind |-> "none", pkt |-> <<>>, plain |-> <<>>, from |-> 0,
             stream |-> <<>>, ivs |-> <<>>]
  /\ last = NoCall
  /\ ncalls = 0
  /\ heap = [s \in Sessions |-> HeapOf(session[s])]

ProtectRtcpRun(s) ==
  /\ ncalls < MaxRun
  /\ \E pkt \in RtcpPlaintexts :
       LET r == srtp_protect_rtcp(session[s], pkt, TRUE)
           v == rtcp_hdr_ssrc(pkt)
           stream == r.ctx.stream_list[srtp_get_stream(r.ctx, v)]
           seq_num == srtp_rdb_get_value(stream.rtcp_rdb)
       IN /\ session' = [session EXCEPT ![s] = r.ctx]
          /\ last' = Call("protect_rtcp", s, r, "none", pkt, v)
          /\ wire' = IF r.status = "ok"
                     THEN [kind |-> "rtcp", pkt |-> r.pkt, plain |-> pkt, from |-> s,
                           stream |-> <<stream>>,
                           ivs |-> Append(wire.ivs,
                                          [ssrc |-> v, index |-> seq_num,
                                           salt |-> stream.c_salt,
                                           iv |-> srtp_calc_aead_iv_srtcp(stream, seq_num, v)])]
                     ELSE wire
  /\ ncalls' = ncalls + 1
  /\ heap' = [heap EXCEPT ![s] = srtp_stream_clone_heap(@, session[s], session'[s])]
  /\ UNCHANGED crypto

RunNext == ProtectRtcpRun(1)

RunSpec == RunInit /\ [][RunNext]_vars

(***************************************************************************)
(* The data paths on sessions that carry two SSRCs: sessions created with  *)
(* a stream for SSRC 1 next to a stream for SSRC 2 or a template, or with  *)
(* a template alone, and packets of either SSRC.                           *)
(***************************************************************************)
IsoSsrcs == {1, 2}

IsoKinds == {"aes_cm_128_hmac_sha1_80", "aes_gcm_128_8_auth"}

IsoLists(kind) ==
  {<<Policy(kind, "ssrc_specific", 1, 1), Policy(kind, "ssrc_specific", 2, 1)>>,
   <<Policy(kind, "ssrc_specific", 1, 1), Policy(kind, "ssrc_any_inbound", 0, 1)>>,
   <<Policy(kind, "ssrc_specific", 1, 1), Policy(kind, "ssrc_any_outbound", 0, 1)>>,
   <<Policy(kind, "ssrc_any_inbound", 0, 1)>>,
   <<Policy(kind, "ssrc_any_outbound", 0, 1)>>}

IsoInit ==
  /\ crypto \in IsoKinds
  /\ \E l \in IsoLists(crypto) : session = [s \in Sessions |-> srtp_create(l).ctx]
  /\ wire = NoWire
  /\ last = NoCall
  /\ ncalls = 0
  /\ heap = [s \in Sessions |-> HeapOf(session[s])]

ProtectSsrc(s) ==
  /\ ncalls < MaxCalls
  /\ \E v \in IsoSsrcs :
     \E mem_ok \in MayAlloc(session[s], htonl(v)) :
       LET pkt == RtpPacket(0, 0, 1, v, Payload(1))
           r == srtp_protect(session[s], pkt, mem_ok)
       IN /\ session' = [session EXCEPT ![s] = r.ctx]
          /\ last' = Call("protect", s, r, "none", pkt, htonl(v))
          /\ wire' = IF r.status = "ok"
                     THEN [kind |-> "rtp", pkt |-> r.pkt, plain |-> pkt, from |-> s,
                           stream |-> <<r.ctx.stream_list[srtp_get_stream(r.ctx, htonl(v))]>>]
                     ELSE wire
  /\ ncalls' = ncalls + 1
  /\ heap' = [heap EXCEPT ![s] = srtp_stream_clone_heap(@, session[s], session'[s])]
  /\ UNCHANGED crypto

UnprotectSsrc(s) ==
  /\ ncalls < MaxCalls
  /\ wire.kind = "rtp"
  /\ \E mem_ok \in MayAlloc(session[s], rtp_hdr_ssrc(wire.pkt)) :
       LET r == srtp_unprotect(session[s], wire.pkt, mem_ok)
       IN /\ session' = [session EXCEPT ![s] = r.ctx]
          /\ last' = Call("unprotect", s, r, "none", wire.pkt, rtp_hdr_ssrc(wire.pkt))
  /\ ncalls' = ncalls + 1
  /\ heap' = [heap EXCEPT ![s] = srtp_stream_clone_heap(@, session[s], session'[s])]
  /\ UNCHANGED <<wire, crypto>>

ProtectRtcpSsrc(s) ==
  /\ ncalls < MaxCalls
  /\ \E v \in IsoSsrcs :
     \E mem_ok \in MayAlloc(session[s], htonl(v)) :
       LET pkt == RtcpPacket(v, Payload(MaxPayload))
           r == srtp_protect_rtcp(session[s], pkt, mem_ok)
       IN /\ session' = [session EXCEPT ![s] = r.ctx]
          /\ last' = Call("protect_rtcp", s, r, "none", pkt, htonl(v))
          /\ wire' = IF r.status = "ok"
                     THEN [kind |-> "rtcp", pkt |-> r.pkt, plain |-> pkt, from |-> s,
                           stream |-> <<r.ctx.stream_list[srtp_get_stream(r.ctx, htonl(v))]>>]
                     ELSE wire
  /\ ncalls' = ncalls + 1
  /\ heap' = [heap EXCEPT ![s] = srtp_stream_clone_heap(@, session[s], session'[s])]
  /\ UNCHANGED crypto

UnprotectRtcpSsrc(s) ==
  /\ ncalls < MaxCalls
  /\ wire.kind = "rtcp"
  /\ \E mem_ok \in MayAlloc(session[s], rtcp_hdr_ssrc(wire.pkt)) :
       LET r == srtp_unprotect_rtcp(session[s], wire.pkt, mem_ok)
       IN /\ session' = [session EXCEPT ![s] = r.ctx]
          /\ last' = Call("unprotect_rtcp", s, r, "none", wire.pkt, rtcp_hdr_ssrc(wire.pkt))
  /\ ncalls' = ncalls + 1
  /\ heap' = [heap EXCEPT ![s] = srtp_stream_clone_heap(@, session[s], session'[s])]
  /\ UNCHANGED <<wire, crypto>>

IsoNext ==
  \/ \E s \in Sessions : ProtectSsrc(s)
  \/ \E s \in Sessions : UnprotectSsrc(s)
  \/ \E s \in Sessions : ProtectRtcpSsrc(s)
  \/ \E s \in Sessions : UnprotectRtcpSsrc(s)

IsoSpec == IsoInit /\ [][IsoNext]_vars

(***************************************************************************)
(* srtp_stream_alloc and srtp_stream_init_keys, as srtp_add_stream calls   *)
(* them, on policies of any cipher and key length the crypto kernel        *)
(* allocates: the allocation with any one of its steps failing, then the   *)
(* keying of the allocated stream with either of two master keys and with  *)
(* any one of its steps failing.  last.arg holds the policy before         *)
(* srtp_stream_alloc and the allocated stream after it; last.out is        *)
(* <<failing step, result, status the failing step reports>> of            *)
(* srtp_stream_alloc and <<master key id, failing step, result>> of        *)
(* srtp_stream_init_keys.                                                  *)
(***************************************************************************)
\* <<cipher id, combined key length>>
KdfCiphers ==
  {<<"SRTP_NULL_CIPHER", l>> : l \in {0, 16, 30, 31, 46}}
  \cup {<<"SRTP_AES_ICM", 30>>, <<"SRTP_AES_ICM", 46>>, <<"SRTP_AES_192_ICM", 38>>,
        <<"SRTP_AES_256_ICM", 46>>, <<"SRTP_AES_128_GCM", 28>>, <<"SRTP_AES_256_GCM", 44>>}

KdfAuthKeyLens == {0, 20}

KdfMasterKeys == {1, 2}

\* the statuses a failing allocation of the crypto kernel or of EKT reports
AllocStats == {"alloc_fail", "bad_param"}

KdfCryptoPolicy(c, auth_key_len) ==
  [cipher_type |-> c[1], cipher_key_len |-> c[2],
   auth_type |-> IF auth_key_len = 0 THEN "SRTP_NULL_AUTH" ELSE "SRTP_HMAC_SHA1",
   auth_key_len |-> auth_key_len, auth_tag_len |-> auth_key_len \div 2,
   sec_serv |-> sec_serv_conf_and_auth]

KdfPolicies ==
  {[rtp |-> KdfCryptoPolicy(rtp, a), rtcp |-> KdfCryptoPolicy(rtcp, a)] :
     rtp \in KdfCiphers, rtcp \in KdfCiphers, a \in KdfAuthKeyLens}

\* the steps that are taken for this stream, and "none"
FailSteps(srtp) ==
  LET r == srtp_stream_init_keys_at(srtp, MasterKey(1), "none").lens
  IN ({InitKeysSteps[i] : i \in 1..Len(InitKeysSteps)} \cup {"none"})
     \ ((IF r.rtp_salt_len > 0 THEN {} ELSE {"rtp_salt"})
        \cup (IF r.rtcp_salt_len > 0 THEN {} ELSE {"rtcp_salt"}))

KdfInit ==
  /\ crypto = "aes_cm_128_hmac_sha1_80"
  /\ session = [s \in Sessions |-> EmptySession]
  /\ wire = NoWire
  /\ \E p \in KdfPolicies : last = [NoCall EXCEPT !.arg = <<p>>]
  /\ ncalls = 0
  /\ heap = [s \in Sessions |-> HeapOf(session[s])]

StreamAlloc ==
  /\ last.op = "none"
  /\ \E fail \in {AllocSteps[i] : i \in 1..Len(AllocSteps)} \cup {"none"},
        stat \in AllocStats :
       LET r == srtp_stream_alloc_at(last.arg[1], 1, fail, stat)
       IN last' = [last EXCEPT !.op = "stream_alloc", !.status = r.status,
                               !.arg = IF r.status = "ok" THEN r.str ELSE @,
                               !.out = <<fail, r, stat>>]
  /\ ncalls' = ncalls + 1
  /\ UNCHANGED <<session, wire, crypto, heap>>

\* a stream is keyed once, right after srtp_stream_alloc has returned ok
StreamInitKeys ==
  /\ last.op = "stream_alloc"
  /\ last.status = "ok"
  /\ \E k \in KdfMasterKeys, fail \in FailSteps(last.arg[1]) :
       LET r == srtp_stream_init_keys_at(last.arg[1], MasterKey(k), fail)
       IN last' = [last EXCEPT !.op = "stream_init_keys", !.status = r.status,
                               !.out = <<k, fail, r>>]
  /\ ncalls' = ncalls + 1
  /\ UNCHANGED <<session, wire, crypto, heap>>

KdfNext == StreamAlloc \/ StreamInitKeys

KdfSpec == KdfInit /\ [][KdfNext]_vars

(***************************************************************************)
(* Properties                                                              *)
(***************************************************************************)
IsUnprotect == last.op \in {"unprotect", "unprotect_rtcp"}
IsProtect == last.op \in {"protect", "protect_rtcp"}

\* the SSRC of the packet on the wire, as the sender wrote it
WireSsrc == IF wire.kind = "rtp" THEN rtp_hdr_ssrc(wire.pkt) ELSE rtcp_hdr_ssrc(wire.pkt)

\* the stream of session s for the SSRC of the packet on the wire
StreamFor(s) == session[s].stream_list[srtp_get_stream(session[s], WireSsrc)]

\* two streams built from the same policy and master key
SamePolicyAndKey(a, b) ==
  /\ a.rtp_cipher = b.rtp_cipher /\ a.rtp_auth = b.rtp_auth
  /\ a.rtp_services = b.rtp_services /\ a.salt = b.salt

\* the last call was srtp_unprotect of the intact packet, in a session other
\* than the sender's that held a stream for the SSRC, built from the policy
\* and key of the sender's stream, and the call got past the replay check and
\* the key limit
RoundTripCase ==
  /\ last.op = "unprotect" /\ last.tamper = "none"
  /\ last.sess # wire.from
  /\ last.info.resolved = "list"
  /\ SamePolicyAndKey(wire.stream[1], StreamFor(last.sess))
  /\ last.status \notin {"replay_fail", "replay_old", "key_expired"}

\* C1: between a sender and a receiver built from the same policy and master
\* key, each holding a stream for the packet's SSRC, srtp_unprotect of what
\* srtp_protect produced returns ok and yields the original bytes and length.
C1_RoundTrip ==
  RoundTripCase => (last.status = "ok" /\ last.out = wire.plain)

\* the last call was srtp_unprotect of the intact packet and returned ok
AcceptedIntact == last.op = "unprotect" /\ last.tamper = "none" /\ last.status = "ok"

\* the RTP replay database of stream st reports the wire packet's index as seen
IndexSeen(st) ==
  LET e == srtp_rdbx_estimate_index(st.rtp_rdbx, ntohs(hdr_seq(wire.pkt)))
  IN srtp_rdbx_check(st.rtp_rdbx, e[2]) = "replay_fail"

\* C2: after srtp_unprotect returns ok for a protected packet (existing stream
\* or stream cloned from the template by that call), the stream's replay
\* database holds the packet's index as seen, and the next srtp_unprotect of
\* the same packet in that session returns replay_fail.
C2_ReplayRejected ==
  [][ /\ AcceptedIntact' => IndexSeen(StreamFor(last.sess))'
      /\ (/\ AcceptedIntact
          /\ last'.op = "unprotect" /\ last'.tamper = "none"
          /\ last'.sess = last.sess /\ ncalls' = ncalls + 1)
           => last'.status = "replay_fail" ]_vars

\* a receiver (it never sent on this stream) rejected the intact packet as a
\* replay
C2_Witness ==
  /\ last.op = "unprotect" /\ last.tamper = "none" /\ last.status = "replay_fail"
  /\ last.sess # wire.from
  /\ StreamFor(last.sess).direction = "dir_srtp_receiver"

\* what the receive path may change only after authentication
ReceiveState(ctx) == <<ctx.stream_list, ctx.stream_template>>

\* C3: an srtp_unprotect or srtp_unprotect_rtcp call that fails authentication
\* (HMAC tag mismatch or GCM tag failure) leaves the stream list, the direction
\* of every stream and of the template, and every replay database as they were.
C3_NoMutationBeforeAuth ==
  [][ (IsUnprotect' /\ last'.info.authfail)
        => \A s \in Sessions : ReceiveState(session'[s]) = ReceiveState(session[s]) ]_vars

\* authentication failed on a stream whose direction was still to be pinned
C3_Witness ==
  /\ IsUnprotect /\ last.info.authfail /\ last.tamper # "none"
  /\ last.info.dir = "dir_unknown"


\* the crypto policy in use provides authentication
HasAuthentication == has_auth(CryptoPolicy(crypto).sec_serv)

\* the crypto policy in use is an AEAD (GCM) one
GcmStream == CryptoPolicy(crypto).cipher_type = "SRTP_AES_128_GCM"

\* the last call was an unprotect of the protected packet with one byte
\* changed, under a policy that provides authentication
TamperCase == IsUnprotect /\ last.tamper # "none" /\ HasAuthentication

\* the SRTCP index the sender wrote into the trailer of the wire packet
WireRtcpIndex ==
  LET after == IF GcmStream THEN 0 ELSE CryptoPolicy(crypto).auth_tag_len
      start == Len(wire.pkt) - after - sizeof_srtcp_trailer_t
  IN trailer_index(SubSeq(wire.pkt, start + 1, start + sizeof_srtcp_trailer_t))

\* the replay check of stream st lets the intact wire packet through
ReplayCheckPasses(st) ==
  IF wire.kind = "rtp"
  THEN LET e == srtp_rdbx_estimate_index(st.rtp_rdbx, ntohs(hdr_seq(wire.pkt)))
       IN srtp_rdbx_check(st.rtp_rdbx, e[2]) = "ok"
  ELSE srtp_rdb_check(st.rtcp_rdb, WireRtcpIndex) = "ok"

\* the session of the last call would let the intact packet through its
\* replay check
FreshAtReceiver ==
  LET ctx == session[last.sess]
      found == srtp_get_stream(ctx, WireSsrc)
  IN found = 0 \/ ReplayCheckPasses(ctx.stream_list[found])

\* the statuses of the checks that come before authentication, by the field
\* the changed byte lies in
EarlyStatuses(field) ==
  CASE field = "vpxcc" -> {"bad_param", "parse_err", "cipher_fail"}
    [] field \in {"seq", "trailer"} -> {"replay_fail", "replay_old"}
    [] field = "ssrc" -> {"no_ctx"}
    [] field = "trailer_e" -> IF GcmStream THEN {} ELSE {"cant_check"}
    [] OTHER -> {}

Role(op) ==
  IF op \in {"protect", "protect_rtcp"} THEN "dir_srtp_sender" ELSE "dir_srtp_receiver"

\* direction dir is pinned, and to the role opposite to that of operation op
Opposite(op, dir) ==
  dir \in {"dir_srtp_sender", "dir_srtp_receiver"} /\ dir # Role(op)

IsDataCall == IsProtect \/ IsUnprotect

\* the number of ssrc_collision events among events
Collisions(events) ==
  Cardinality({i \in 1..Len(events) : events[i].event = "event_ssrc_collision"})

\* the k-th stream from the end of a stream list (the data paths only prepend)
FromEnd(list, k) == list[Len(list) - k + 1]

\* C5: on the data paths the direction of an existing stream either stays as
\* it is or goes from unknown to the role of the call (sender for protect and
\* protect_rtcp, receiver for the unprotect calls); the direction of the
\* template never changes; and a call that reaches its direction check in the
\* role opposite to the stream's direction leaves it unchanged and delivers an
\* ssrc_collision event.
C5_DirectionWriteOnce ==
  [][ /\ \A s \in Sessions :
           LET old == session[s].stream_list
               new == session'[s].stream_list
           IN /\ Len(new) >= Len(old)
              /\ \A k \in 1..Len(old) :
                   /\ FromEnd(new, k).ssrc = FromEnd(old, k).ssrc
                   /\ \/ FromEnd(new, k).direction = FromEnd(old, k).direction
                      \/ /\ FromEnd(old, k).direction = "dir_unknown"
                         /\ FromEnd(new, k).direction = Role(last'.op)
                         /\ s = last'.sess
              /\ session[s].stream_template # <<>>
                   => /\ session'[s].stream_template # <<>>
                      /\ session'[s].stream_template[1].direction
                           = session[s].stream_template[1].direction
      /\ (last'.info.checked /\ Opposite(last'.op, last'.info.dir))
           => Collisions(last'.events) >= 1 ]_vars

\* C5 as stated: every call in the role opposite to the direction of the
\* stream it resolves to delivers an ssrc_collision event
C5_Original ==
  (IsDataCall /\ last.info.resolved # "none" /\ Opposite(last.op, last.info.dir))
    => Collisions(last.events) >= 1

\* srtp_unprotect got as far as its direction check on a list stream pinned
\* to sender; the stream is still a sender
C5_Witness ==
  /\ last.op = "unprotect" /\ last.info.resolved = "list" /\ last.info.checked
  /\ last.info.dir = "dir_srtp_sender"
  /\ Collisions(last.events) = 1
  /\ StreamFor(last.sess).direction = "dir_srtp_sender"

\* the SSRC (in network order) of the stream a call resolved to: 0 for the
\* template
ResolvedSsrcs ==
  IF last.info.resolved = "template" THEN {htonl(0)} ELSE {htonl(v) : v \in SsrcValues}

\* C6: a protect, protect_rtcp, unprotect or unprotect_rtcp call delivers
\* exactly one ssrc_collision event, for the stream it resolved to, when it
\* reaches its direction check and that stream's direction is the opposite of
\* the call's role; in every other case (the call was rejected before its
\* direction check, or the direction is unknown or matches) it delivers none.
C6_CollisionExact ==
  IsDataCall =>
    /\ Collisions(last.events)
         = IF last.info.checked /\ Opposite(last.op, last.info.dir) THEN 1 ELSE 0
    /\ \A i \in 1..Len(last.events) :
         last.events[i].event = "event_ssrc_collision"
           => last.events[i].ssrc \in ResolvedSsrcs

\* C6 as stated: exactly one event for every call that resolves to a stream
\* of the opposite direction, none for the others
C6_Original ==
  IsDataCall =>
    Collisions(last.events)
      = IF last.info.resolved # "none" /\ Opposite(last.op, last.info.dir) THEN 1 ELSE 0

\* srtp_protect on a stream pinned to receiver went through and delivered its
\* one event
C6_Witness ==
  /\ last.op = "protect" /\ last.status = "ok"
  /\ last.info.dir = "dir_srtp_receiver" /\ Collisions(last.events) = 1

\* C7: no two streams in a session's stream list carry the same SSRC.
C7_SsrcUnique ==
  \A s \in Sessions :
    \A i, j \in 1..Len(session[s].stream_list) :
      i # j => session[s].stream_list[i].ssrc # session[s].stream_list[j].ssrc

\* the last call was srtp_add_stream with a wildcard policy, and the allocation
\* of the candidate stream succeeded
WildcardAdd(l) ==
  /\ l.op = "add_stream"
  /\ l.arg[1] \in {"ssrc_any_inbound", "ssrc_any_outbound"}
  /\ l.arg[2]

C9_Promotion ==
  [][ (last'.op = "unprotect" /\ last'.status = "ok" /\ last'.info.resolved = "template")
        => LET old == session[last'.sess].stream_list
               new == session'[last'.sess].stream_list
           IN /\ Len(new) = Len(old) + 1
              /\ Tail(new) = old
              /\ \A i \in 1..Len(old) : old[i].ssrc # new[1].ssrc
              /\ new[1].direction = "dir_srtp_receiver" ]_vars

\* C10: when srtp_protect or srtp_protect_rtcp clones the template for an SSRC
\* that had no stream, the clone is prepended to the stream list and has
\* direction sender when the call returns.
C10_SenderClone ==
  [][ (IsProtect' /\ last'.info.resolved = "clone")
        => LET old == session[last'.sess].stream_list
               new == session'[last'.sess].stream_list
           IN /\ Len(new) = Len(old) + 1
              /\ Tail(new) = old
              /\ new[1].direction = "dir_srtp_sender" ]_vars


\* the packet of call l passes the length and header checks made before the
\* stream lookup (the packets sent have CC = 0 and X = 0)
InitialChecksPass(l) ==
  CASE l.op \in {"protect", "unprotect"} ->
         l.len_in >= octets_in_rtp_header /\ l.tamper # "vpxcc"
    [] l.op = "protect_rtcp" -> l.len_in >= octets_in_rtcp_header
    [] l.op = "unprotect_rtcp" ->
         l.len_in >= octets_in_rtcp_header + sizeof_srtcp_trailer_t
    [] OTHER -> FALSE

\* session ctx has no template and no stream with this SSRC
NoContextFor(ctx, ssrc) ==
  /\ ctx.stream_template = <<>>
  /\ \A i \in 1..Len(ctx.stream_list) : ctx.stream_list[i].ssrc # ssrc

\* C11: srtp_protect, srtp_unprotect, srtp_protect_rtcp and srtp_unprotect_rtcp,
\* called with a packet that passes the initial length and header checks and
\* whose SSRC matches no stream, in a session without a template, return no_ctx
\* and leave the session and the packet length as they were.
C11_NoContext ==
  [][ (InitialChecksPass(last') /\ NoContextFor(session[last'.sess], last'.ssrc))
        => /\ last'.status = "no_ctx"
           /\ session' = session
           /\ last'.len = last'.len_in ]_vars

\* srtp_unprotect_rtcp met an SSRC for which the session, which holds another
\* stream, has no context
C11_Witness ==
  /\ last.op = "unprotect_rtcp" /\ last.status = "no_ctx" /\ last.tamper = "ssrc"
  /\ session[last.sess].stream_list # <<>>
  /\ NoContextFor(session[last.sess], last.ssrc)


\* what srtp_key_limit_update reported in the step, if the step updated a key
\* usage counter of the session of the call: "none" if it updated none
KeyLimitReport ==
  LET old == session[last'.sess].limits
      new == session'[last'.sess].limits
      upd == {i \in 1..Len(old) : new[i] # old[i]}
  IN IF upd = {} THEN "none"
     ELSE srtp_key_limit_update(old[CHOOSE i \in upd : TRUE])[1]

HasEvent(events, e) == \E i \in 1..Len(events) : events[i].event = e

\* no stream of session s has a new index in its RTP replay database after
\* the step, and a stream the step added has an empty one
NothingCommitted(s) ==
  LET old == session[s].stream_list
      new == session'[s].stream_list
  IN /\ Len(new) >= Len(old)
     /\ \A k \in 1..Len(new) :
          IF k <= Len(old)
          THEN FromEnd(new, k).rtp_rdbx = FromEnd(old, k).rtp_rdbx
          ELSE FromEnd(new, k).rtp_rdbx.bits = {}

\* C12: when the key usage update made by srtp_protect or srtp_unprotect
\* (CTR+HMAC or GCM path) reports the hard limit, the call delivers
\* event_key_hard_limit, returns key_expired, commits no index to an RTP
\* replay database and leaves the packet length as it was; when it reports the
\* soft limit the call delivers event_key_soft_limit and goes on.
C12_KeyExpiry ==
  [][ /\ KeyLimitReport = "hard_limit"
           => /\ HasEvent(last'.events, "event_key_hard_limit")
              /\ last'.status = "key_expired"
              /\ NothingCommitted(last'.sess)
              /\ last'.len = last'.len_in
      /\ KeyLimitReport = "soft_limit"
           => /\ HasEvent(last'.events, "event_key_soft_limit")
              /\ last'.status # "key_expired" ]_vars

\* srtp_unprotect ran into the hard limit
C12_Witness ==
  /\ last.op = "unprotect" /\ last.status = "key_expired"
  /\ HasEvent(last.events, "event_key_hard_limit")
  /\ last.sess # wire.from


\* allow_repeat_tx of the sender stream of session s (all streams of a session
\* come from one policy)
AllowRepeatTx(s) ==
  LET ctx == session[s]
  IN IF ctx.stream_template # <<>> THEN ctx.stream_template[1].allow_repeat_tx
     ELSE ctx.stream_list[1].allow_repeat_tx

WindowSize(s) ==
  LET ctx == session[s]
  IN IF ctx.stream_template # <<>> THEN ctx.stream_template[1].rtp_rdbx.ws
     ELSE ctx.stream_list[1].rtp_rdbx.ws

\* C13 as stated: with allow_repeat_tx = 0 the extended indices of the
\* srtp_protect calls that returned ok are strictly increasing.
C13_Original ==
  \A s \in Sessions :
    AllowRepeatTx(s) = 0 =>
      \A i, j \in 1..Len(wire.sent[s]) : i < j => wire.sent[s][i] < wire.sent[s][j]

\* C13: with allow_repeat_tx = 0 the extended indices committed by the
\* srtp_protect calls on one sender stream that returned ok are pairwise
\* distinct, and none lies a replay window or more below an earlier one; with
\* allow_repeat_tx = 1 the only exception is an exact repeat of an index
\* already committed.
C13_DistinctSendIndex ==
  \A s \in Sessions :
    \A i, j \in 1..Len(wire.sent[s]) :
      i < j =>
        /\ wire.sent[s][j] > wire.sent[s][i] - WindowSize(s)
        /\ AllowRepeatTx(s) = 0 => wire.sent[s][j] # wire.sent[s][i]

\* a packet was sent out of order: its index is below the one sent before it
C13_Witness ==
  \E s \in Sessions :
    /\ AllowRepeatTx(s) = 0
    /\ Len(wire.sent[s]) = 3
    /\ wire.sent[s][2] < wire.sent[s][1]
    /\ wire.sent[s][3] > wire.sent[s][1]
    /\ last.status = "ok"


\* what the RTP replay database of the resolved stream reports for the packet
\* of the srtp_protect call made in the step
SendReport ==
  LET ctx == session[last'.sess]
      pkt == RtpPacket(0, 0, last'.arg[1], 1, Payload(1))
  IN srtp_rdbx_check(SendStream(ctx, pkt).rtp_rdbx, SendIndex(ctx, pkt)[2])

SendCase == last'.op = "protect" /\ last'.status # "alloc_fail"

\* C14: srtp_protect of a packet whose index the RTP replay database of the
\* stream reports as seen (replay_fail) returns ok iff allow_repeat_tx of the
\* stream is 1, and then the replay database is as before; with
\* allow_repeat_tx = 0 it returns replay_fail; an index outside the window
\* (replay_old) is returned as an error for either setting.
C14_RepeatTx ==
  [][ SendCase =>
        /\ SendReport = "replay_fail" =>
             /\ last'.status = "ok" <=> AllowRepeatTx(last'.sess) = 1
             /\ AllowRepeatTx(last'.sess) = 0 => last'.status = "replay_fail"
             /\ NothingCommitted(last'.sess)
        /\ SendReport = "replay_old" =>
             /\ last'.status = "replay_old"
             /\ NothingCommitted(last'.sess) ]_vars

\* an index was sent a second time
C14_Witness ==
  \E s \in Sessions :
    /\ last.op = "protect" /\ last.sess = s /\ last.status = "ok"
    /\ AllowRepeatTx(s) = 1
    /\ \E i \in 1..(Len(wire.sent[s]) - 1) :
         wire.sent[s][i] = wire.sent[s][Len(wire.sent[s])]


\* the stream srtp_unprotect_rtcp resolves for the SSRC of the call made in the
\* step: <<stream>>, or <<>> if there is none
RtcpResolved ==
  LET ctx == session[last'.sess]
      found == IF last'.ssrc = <<>> THEN 0 ELSE srtp_get_stream(ctx, last'.ssrc)
  IN IF found # 0 THEN <<ctx.stream_list[found]>> ELSE ctx.stream_template

\* the call of the step is srtp_unprotect_rtcp on a packet that passes both
\* length checks and resolves to a stream
RtcpUnprotectCase ==
  /\ last'.op = "unprotect_rtcp"
  /\ last'.len_in >= octets_in_rtcp_header + sizeof_srtcp_trailer_t
  /\ RtcpResolved # <<>>
  /\ last'.len_in >= octets_in_rtcp_header + RtcpResolved[1].rtcp_auth.tag_len
                     + sizeof_srtcp_trailer_t

\* the trailer of the packet of the call, where the receiving stream looks for it
ReceivedTrailer ==
  LET pkt == last'.arg[1]
      st == RtcpResolved[1]
      after == IF is_aead(st) THEN 0 ELSE st.rtcp_auth.tag_len
  IN SubSeq(pkt, Len(pkt) - after - sizeof_srtcp_trailer_t + 1, Len(pkt) - after)

\* C15: on every RTCP unprotect path, when the E bit of the packet's trailer
\* differs from whether the RTCP services of the resolved stream include
\* confidentiality, srtp_unprotect_rtcp returns cant_check, changes no session
\* state and leaves the packet length as it was.
C15_EBitCheck ==
  [][ (RtcpUnprotectCase
       /\ trailer_e_bit(ReceivedTrailer) # has_conf(RtcpResolved[1].rtcp_services))
        => /\ last'.status = "cant_check"
           /\ session' = session
           /\ last'.len = last'.len_in ]_vars


\* C16: srtp_unprotect_rtcp returns bad_param and changes no state for a
\* packet shorter than 8 + 4 octets, whether or not its SSRC resolves, and for
\* a packet that resolves to a stream or to the template and is shorter than
\* 8 + tag_len + 4 octets, tag_len being the RTCP tag length of that stream;
\* srtp_protect_rtcp returns bad_param for a packet shorter than 8 octets.
C16_RtcpMinLength ==
  [][ /\ (/\ last'.op = "unprotect_rtcp"
          /\ \/ last'.len_in < octets_in_rtcp_header + sizeof_srtcp_trailer_t
             \/ /\ RtcpResolved # <<>>
                /\ last'.len_in < octets_in_rtcp_header
                                  + RtcpResolved[1].rtcp_auth.tag_len
                                  + sizeof_srtcp_trailer_t)
           => /\ last'.status = "bad_param"
              /\ session' = session
              /\ last'.len = last'.len_in
      /\ (last'.op = "protect_rtcp" /\ last'.len_in < octets_in_rtcp_header)
           => /\ last'.status = "bad_param"
              /\ session' = session ]_vars

\* a packet long enough for the first check and too short for the tag was
\* handed to a session that resolves it to its template
C16_Witness ==
  /\ last.op = "unprotect_rtcp" /\ last.status = "bad_param"
  /\ last.len_in >= octets_in_rtcp_header + sizeof_srtcp_trailer_t
  /\ last.info.resolved = "template"


\* the RTCP index of the stream srtp_protect_rtcp resolves in the step, before
\* the call (a stream cloned by the call starts at 0)
RtcpIndexBefore ==
  LET ctx == session[last'.sess]
      found == srtp_get_stream(ctx, last'.ssrc)
  IN IF found = 0 THEN 0 ELSE ctx.stream_list[found].rtcp_rdb.window_start

\* the stream srtp_protect_rtcp worked on, after the call
RtcpSenderAfter ==
  LET ctx == session'[last'.sess]
  IN ctx.stream_list[srtp_get_stream(ctx, last'.ssrc)]

\* the trailer of an SRTCP packet as the sender under policy crypto lays it out
SentTrailer(pkt) ==
  SubSeq(pkt, TrailerStart(pkt, crypto), TrailerStart(pkt, crypto) + sizeof_srtcp_trailer_t - 1)

\* the low 31 bits of the trailer word, most significant octet first
Low31(t) == (t[1] % 128) * 16777216 + t[2] * 65536 + t[3] * 256 + t[4]

HighBit(t) == t[1] \div 128

\* C17: every srtp_protect_rtcp call that returns ok writes a trailer word
\* whose high bit is 1 exactly when the RTCP services of the stream include
\* confidentiality and whose low 31 bits are the RTCP index of the stream
\* after it was incremented by one (1 on the first packet of a stream), so the
\* indices of successive successful calls on a stream increase strictly; a call
\* whose increment would pass 2^31 - 1 fails and writes no packet.
C17_SrtcpIndex ==
  [][ (last'.op = "protect_rtcp" /\ last'.info.checked)
        => /\ last'.status = "ok" =>
                /\ HighBit(SentTrailer(last'.out)) = 1
                     <=> has_conf(RtcpSenderAfter.rtcp_services)
                /\ Low31(SentTrailer(last'.out)) = RtcpIndexBefore + 1
                /\ RtcpSenderAfter.rtcp_rdb.window_start = RtcpIndexBefore + 1
           /\ RtcpIndexBefore >= 2147483647 =>
                /\ last'.status # "ok"
                /\ last'.len = last'.len_in ]_vars

\* the last index of the space was sent, with the E bit
C17_Witness ==
  /\ last.op = "protect_rtcp" /\ last.status = "ok"
  /\ Low31(SentTrailer(last.out)) = 2147483647
  /\ HighBit(SentTrailer(last.out)) = 1


\* no stream of session s has a new index in its RTCP replay database after
\* the step
NoRtcpCommit(s) ==
  LET old == session[s].stream_list
      new == session'[s].stream_list
  IN /\ Len(new) >= Len(old)
     /\ \A k \in 1..Len(new) :
          IF k <= Len(old)
          THEN FromEnd(new, k).rtcp_rdb = FromEnd(old, k).rtcp_rdb
          ELSE FromEnd(new, k).rtcp_rdb = srtp_rdb_init

\* what the RTCP replay database of the resolved stream says of the SRTCP
\* index of the packet of the call
RtcpReplayReport ==
  srtp_rdb_check(RtcpResolved[1].rtcp_rdb, Low31(ReceivedTrailer))

\* C18: srtp_unprotect_rtcp checks the SRTCP index of the packet against the
\* RTCP replay database of the stream before it authenticates, so a packet
\* the database refuses is returned with the database's status even when its
\* tag is wrong; the index is committed only by a call that returns ok; and
\* after a call that returned ok, an immediately following call on the same
\* packet and session returns replay_fail.
C18_RtcpReplay ==
  [][ last'.op = "unprotect_rtcp" =>
        /\ (RtcpUnprotectCase /\ last'.status # "cant_check"
            /\ RtcpReplayReport # "ok")
             => last'.status = RtcpReplayReport
        /\ last'.status # "ok" => NoRtcpCommit(last'.sess)
        /\ (last.op = "unprotect_rtcp" /\ last.status = "ok"
            /\ last'.sess = last.sess /\ last'.arg = last.arg)
             => last'.status = "replay_fail" ]_vars

\* a receiver refused the packet it had accepted before
C18_Witness ==
  /\ last.op = "unprotect_rtcp" /\ last.status = "replay_fail" /\ last.tamper = "none"
  /\ last.sess # wire.from
  /\ \E i \in 1..Len(session[last.sess].stream_list) :
       LET st == session[last.sess].stream_list[i]
       IN st.direction = "dir_srtp_receiver" /\ st.rtcp_rdb.bits # {}


\* 12 + 4*CC + (X = 1 ? 4 + 4*ext_length : 0) for the packet of a call
HeaderBound(arg) ==
  12 + 4 * arg[1] + (IF arg[2] = 1 THEN 4 + 4 * arg[3] ELSE 0)

\* C19: srtp_protect and srtp_unprotect do not reject a packet for its header
\* (bad_param, parse_err) when pkt_len >= 12 + 4*CC + (X = 1 ? 4 +
\* 4*ext_length : 0), and return bad_param when pkt_len is one octet less.
C19_HeaderValidation ==
  [][ last'.op \in {"protect", "unprotect"} =>
        /\ last'.len_in = HeaderBound(last'.arg) - 1 => last'.status = "bad_param"
        /\ last'.len_in >= HeaderBound(last'.arg) =>
             /\ last'.status # "bad_param"
             /\ last'.op = "protect" => last'.status # "parse_err" ]_vars


\* the stream a successful srtp_add_stream of the given ssrc type has added
AddedStream(ctx, type) ==
  IF type = "ssrc_specific" THEN ctx.stream_list[1] ELSE ctx.stream_template[1]

\* C20: stream initialisation returns bad_param for every window_size in
\* 1..63 and every window_size >= 0x8000, uses a window of 128 when
\* window_size is 0 and exactly window_size for a value in 64..0x7FFF; a
\* stream cloned from a template has the window size of the template.
C20_WindowSize ==
  [][ /\ last'.op = "add_stream" =>
           LET ws == last'.arg[2]
               ctx == session'[last'.sess]
           IN /\ (ws \in 1..63 \/ ws >= 32768) =>
                   last'.status = "bad_param" /\ session' = session
              /\ (ws = 0 /\ last'.status = "ok") =>
                   AddedStream(ctx, last'.arg[1]).rtp_rdbx.ws = 128
              /\ (ws \in 64..32767 /\ last'.status = "ok") =>
                   AddedStream(ctx, last'.arg[1]).rtp_rdbx.ws = ws
              /\ (ws \in {0} \cup 64..32767 /\ session[last'.sess] = EmptySession) =>
                   last'.status = "ok"
      /\ (last'.op = "protect" /\ last'.info.resolved = "clone") =>
           LET ctx == session'[last'.sess]
           IN ctx.stream_list[1].rtp_rdbx.ws = ctx.stream_template[1].rtp_rdbx.ws ]_vars

\* srtp_protect cloned a stream from a template with the largest window
C20_Witness ==
  /\ last.op = "protect" /\ last.info.resolved = "clone"
  /\ session[last.sess].stream_list[1].rtp_rdbx.ws = 32767

\* C21: srtp_add_stream with a policy whose allow_repeat_tx is neither 0 nor 1
\* returns bad_param and leaves the stream list and the template of the
\* session as they were.
C21_AllowRepeatTx ==
  [][\A s \in Sessions :
       (last'.op = "add_stream" /\ last'.sess = s /\ last'.arg[2] \notin {0, 1})
         => /\ last'.status = "bad_param"
            /\ session'[s].stream_list = session[s].stream_list
            /\ session'[s].stream_template = session[s].stream_template]_vars

\* such a policy has been refused by a session that holds a stream and a template
C21_Witness ==
  /\ last.op = "add_stream" /\ last.arg[2] = 2 /\ last.arg[1] = "ssrc_specific"
  /\ last.status = "bad_param"
  /\ session[last.sess].stream_list # <<>>
  /\ session[last.sess].stream_template # <<>>

\* the list without its k-th stream
WithoutStream(list, k) == SubSeq(list, 1, k - 1) \o SubSeq(list, k + 1, Len(list))

\* C22: srtp_remove_stream of an SSRC some listed stream carries returns ok,
\* afterwards no lookup for that SSRC finds a stream, the other streams keep
\* their order and state and the template is untouched; when no listed stream
\* carries the SSRC it returns no_ctx and the session is unchanged.
C22_RemoveStream ==
  [][\A s \in Sessions :
       (last'.op = "remove_stream" /\ last'.sess = s)
         => LET ssrc == htonl(last'.arg[1])
                list == session[s].stream_list
            IN IF \E k \in 1..Len(list) : list[k].ssrc = ssrc
               THEN /\ last'.status = "ok"
                    /\ srtp_get_stream(session'[s], ssrc) = 0
                    /\ \E k \in 1..Len(list) :
                         /\ list[k].ssrc = ssrc
                         /\ session'[s].stream_list = WithoutStream(list, k)
                    /\ session'[s].stream_template = session[s].stream_template
               ELSE /\ last'.status = "no_ctx"
                    /\ session'[s] = session[s]]_vars

\* C23: when srtp_add_stream fails, every object allocated during the call
\* (stream context, ciphers, MACs, key limit, replay database) has been
\* released on return: the session has on the heap what it had before.
C23_Rollback ==
  [][\A s \in Sessions :
       (last'.op = "add_stream" /\ last'.sess = s /\ last'.status # "ok")
         => heap'[s].live = heap[s].live]_vars

\* the objects allocated for the streams that were installed in session s
Installed(s) == {o \in heap[s].live : o[1] > 0}

\* C24: a cipher, MAC or key limit shared by the template and its clones is
\* not released by srtp_remove_stream or by the deallocation of a clone, nor
\* while a listed stream refers to it, and srtp_dealloc releases it exactly
\* once; the objects of a stream that is no clone are released exactly once,
\* when the stream is removed or the session is deallocated.  So the objects
\* allocated for installed streams are at any time those the streams of the
\* session refer to, none after srtp_dealloc, and nothing is released twice.
C24_SharedLifetime ==
  \A s \in Sessions :
    /\ heap[s].wild = {}
    /\ Installed(s) = IF heap[s].alive THEN HeapOf(session[s]).live ELSE {}

\* srtp_dealloc has released a session that held a template and a clone of it
C24_Witness ==
  /\ last.op = "dealloc"
  /\ \E o \in {f.obj : f \in heap[last.sess].freed} : o[2] = "ctx" /\ o[3] # <<>>
  /\ \E o \in {f.obj : f \in heap[last.sess].freed} : o[2] = "ctx" /\ o[3] = <<>>

\* the stream contexts released by srtp_remove_stream and srtp_dealloc in
\* session s: those of streams that were installed in the session
Destroyed(s) == {f \in heap[s].freed : f.obj[1] > 0}

\* C25: whenever a stream context is destroyed (by srtp_remove_stream, as a
\* listed stream during srtp_dealloc, or as the template during srtp_dealloc)
\* both of its 12-byte salts are zero when its memory is released.
C25_SaltZeroized ==
  \A s \in Sessions : \A f \in Destroyed(s) :
    f.salt = Zeros(SRTP_AEAD_SALT_LEN) /\ f.c_salt = Zeros(SRTP_AEAD_SALT_LEN)

\* the cipher part of the policy a profile names
ProfileCipher(profile) ==
  CASE profile \in {"srtp_profile_aes128_cm_sha1_80", "srtp_profile_aes128_cm_sha1_32"} ->
         [cipher_type |-> "SRTP_AES_ICM", cipher_key_len |-> 30,
          sec_serv |-> sec_serv_conf_and_auth]
    [] profile \in {"srtp_profile_aes256_cm_sha1_80", "srtp_profile_aes256_cm_sha1_32"} ->
         [cipher_type |-> "SRTP_AES_ICM", cipher_key_len |-> 46,
          sec_serv |-> sec_serv_conf_and_auth]
    [] profile = "srtp_profile_null_sha1_80" ->
         [cipher_type |-> "SRTP_NULL_CIPHER", cipher_key_len |-> 0,
          sec_serv |-> sec_serv_auth]

\* the HMAC-SHA1 policy of that cipher with a tag of tag_len octets
ProfilePolicy(profile, tag_len) ==
  [cipher_type |-> ProfileCipher(profile).cipher_type,
   cipher_key_len |-> ProfileCipher(profile).cipher_key_len,
   auth_type |-> "SRTP_HMAC_SHA1", auth_key_len |-> 20, auth_tag_len |-> tag_len,
   sec_serv |-> ProfileCipher(profile).sec_serv]

SupportedProfiles ==
  {"srtp_profile_aes128_cm_sha1_80", "srtp_profile_aes128_cm_sha1_32",
   "srtp_profile_null_sha1_80", "srtp_profile_aes256_cm_sha1_80",
   "srtp_profile_aes256_cm_sha1_32"}

Tag32Profiles == {"srtp_profile_aes128_cm_sha1_32", "srtp_profile_aes256_cm_sha1_32"}

C27_Version ==
  (last.op = "get_version") =>
    LET parts == last.arg[2]
    IN IF parts = <<>> THEN last.out = <<0, 0, 0, 0>>
       ELSE last.out = <<parts[1], parts[2], parts[3] \div 256, parts[3] % 256>>

\* C28: an srtp_unprotect call that fails authentication, on the CTR+HMAC and
\* on the GCM path, leaves every key usage counter of the session as it was
\* and delivers no key-limit event.
C28_KeyBudget ==
  [][\A s \in Sessions :
       (last'.op = "unprotect" /\ last'.sess = s /\ last'.status = "auth_fail")
         => /\ session'[s].limits = session[s].limits
            /\ ~HasEvent(last'.events, "event_key_soft_limit")
            /\ ~HasEvent(last'.events, "event_key_hard_limit")]_vars

\* C29: the IV of an SRTCP packet under the AEAD policy is, before the salt,
\* octets 0-1 zero, octets 2-5 the SSRC in network order, octets 6-7 zero and
\* octets 8-11 the big-endian encoding of the SRTCP index (of its low 31
\* bits: the index is below 2^31); the IV given to the cipher is that value
\* XOR the 12-octet RTCP salt of the stream.
C29_RtcpIv ==
  \A k \in 1..Len(wire.ivs) :
    LET e == wire.ivs[k]
    IN SubSeq(e.iv, 1, SRTP_AEAD_SALT_LEN)
         = XorSeq(Zeros(2) \o e.ssrc \o Zeros(2) \o htonl(e.index), e.salt)

\* C30: two srtp_protect_rtcp calls on one AEAD stream that both return ok
\* never hand the same IV to the RTCP cipher.
C30_NoNonceReuse ==
  \A j, k \in 1..Len(wire.ivs) : j # k => wire.ivs[j].iv # wire.ivs[k].iv

\* the IV srtp_protect / srtp_protect_aead hands to the RTP cipher of the sender
\* stream of session s for extended index est
SendIv(s, est) ==
  LET stream == session[s].stream_list[1]
  IN IF stream.rtp_cipher.type = "SRTP_AES_128_GCM"
     THEN srtp_calc_aead_iv(stream, est, stream.ssrc)
     ELSE rtp_iv(stream, stream.ssrc, est)

\* C31: on a stream with allow_repeat_tx = 0 no two srtp_protect calls that
\* returned ok used the same extended packet index, nor the same cipher IV,
\* whatever the order of the sequence numbers presented (reordered, wrapping
\* past 65535).
C31_NoIndexReuse ==
  \A s \in Sessions :
    AllowRepeatTx(s) = 0 =>
      \A i, j \in 1..Len(wire.sent[s]) :
        i # j =>
          /\ wire.sent[s][i] # wire.sent[s][j]
          /\ SendIv(s, wire.sent[s][i]) # SendIv(s, wire.sent[s][j])

\* three packets sent with sequence numbers 65535, 1, 0: the index wraps past
\* 65535 and the last packet is out of order
C31_Witness ==
  \E s \in Sessions :
    /\ AllowRepeatTx(s) = 0
    /\ wire.sent[s] = <<seq_num_max - 1, seq_num_max + 1, seq_num_max>>
    /\ last.status = "ok"

\* the tag length of the streams of the session of the last call, for RTP
\* and for RTCP
RtpTagLen == session[last.sess].stream_list[1].rtp_auth.tag_len
RtcpTagLen == session[last.sess].stream_list[1].rtcp_auth.tag_len

\* C32: every protect, unprotect, protect_rtcp and unprotect_rtcp call that
\* returns a status other than ok (an allocation failure while cloning the
\* template included) leaves the caller's packet length as it was on entry;
\* a call that returns ok changes it by +tag_len / -tag_len for RTP and by
\* +(tag_len + 4) / -(tag_len + 4) for RTCP.
C32_LengthOnError ==
  last.op \in {"protect", "unprotect", "protect_rtcp", "unprotect_rtcp"} =>
    IF last.status # "ok"
    THEN last.len = last.len_in
    ELSE CASE last.op = "protect" -> last.len = last.len_in + RtpTagLen
           [] last.op = "unprotect" -> last.len = last.len_in - RtpTagLen
           [] last.op = "protect_rtcp" ->
                last.len = last.len_in + RtcpTagLen + sizeof_srtcp_trailer_t
           [] last.op = "unprotect_rtcp" ->
                last.len = last.len_in - (RtcpTagLen + sizeof_srtcp_trailer_t)

\* the SSRCs of the streams listed in session s, in list order
ListedSsrcs(ctx) == [i \in 1..Len(ctx.stream_list) |-> ctx.stream_list[i].ssrc]

\* C33: a srtp_protect or srtp_protect_rtcp call that returns an error leaves
\* the stream list of the session as it was before the call: no stream cloned
\* from the template for the packet's SSRC remains in the list.
C33_FailedSendAddsNoStream ==
  [][ (last'.op \in {"protect", "protect_rtcp"} /\ last'.status # "ok") =>
        ListedSsrcs(session'[last'.sess]) = ListedSsrcs(session[last'.sess]) ]_vars

\* what a stream owns: direction, replay databases, SSRC and salts
OwnState(stream) ==
  [ssrc |-> stream.ssrc, direction |-> stream.direction, rtp_rdbx |-> stream.rtp_rdbx,
   rtcp_rdb |-> stream.rtcp_rdb, salt |-> stream.salt, c_salt |-> stream.c_salt]

\* the own state of the listed streams of ctx whose SSRC is not ssrc, in list order
OtherStreams(ctx, ssrc) ==
  LET others == SelectSeq(ctx.stream_list, LAMBDA x : x.ssrc # ssrc)
  IN [i \in 1..Len(others) |-> OwnState(others[i])]

\* direction and replay databases of the template of ctx
TemplateState(ctx) ==
  IF ctx.stream_template = <<>> THEN <<>>
  ELSE <<ctx.stream_template[1].direction, ctx.stream_template[1].rtp_rdbx,
         ctx.stream_template[1].rtcp_rdb>>

\* C34: a protect, unprotect, protect_rtcp or unprotect_rtcp call for SSRC A
\* changes no direction, RTP replay database, RTCP replay database, SSRC or
\* salt of a listed stream with another SSRC, and never changes the
\* direction or the replay databases of the template.
C34_SsrcIsolation ==
  [][ last'.op \in {"protect", "unprotect", "protect_rtcp", "unprotect_rtcp"} =>
        /\ OtherStreams(session'[last'.sess], last'.ssrc)
             = OtherStreams(session[last'.sess], last'.ssrc)
        /\ TemplateState(session'[last'.sess]) = TemplateState(session[last'.sess]) ]_vars

\* a call for SSRC 2 returned ok, cloning the template, in a session whose
\* stream for SSRC 1 has been used before
C34_Witness ==
  \E s \in Sessions :
    /\ last.sess = s
    /\ last.status = "ok"
    /\ last.ssrc = htonl(2)
    /\ session[s].stream_template # <<>>
    /\ Len(session[s].stream_list) = 2
    /\ \E i \in 1..2 : /\ session[s].stream_list[i].ssrc = htonl(1)
                       /\ session[s].stream_list[i].direction # "dir_unknown"
                       /\ session[s].stream_list[i].rtp_rdbx.bits # {}

\* the packet of the last srtp_unprotect call of HdrSpec, rebuilt from its
\* shape <<cc, x, xlen>> and its length
LastHdrPacket ==
  Cut(RtpPacketCc(last.arg[1], last.arg[2], last.arg[3], 1, Payload(1)), last.len_in)

\* the call went past header validation, stream lookup, the replay check and
\* the check of the start of the encrypted region
PastReplayCheck ==
  /\ last.op = "unprotect"
  /\ last.status \notin {"bad_param", "no_ctx", "replay_fail", "replay_old", "parse_err"}

\* C35: in srtp_unprotect on a CTR + HMAC stream, for every packet that
\* passes header validation and the replay check, the authenticated length
\* pkt_len - tag_len is at least the RTP header length, and the length
\* pkt_len - tag_len - header_len of the encrypted region is not negative
\* (it does not wrap around as an unsigned value).
C35_NoLengthUnderflow ==
  (PastReplayCheck /\ CryptoPolicy(crypto).cipher_type # "SRTP_AES_128_GCM") =>
    LET tag_len == CryptoPolicy(crypto).auth_tag_len
        header_len == rtp_enc_start(LastHdrPacket)
    IN /\ last.len_in - tag_len >= header_len
       /\ last.len_in - tag_len - header_len >= 0

\* a derived key is used by the stream: a keyed RTP or RTCP cipher, or a MAC
\* with a key
DerivedKeyUsed(srtp) ==
  \/ srtp.rtp_cipher.type # "SRTP_NULL_CIPHER"
  \/ srtp.rtcp_cipher.type # "SRTP_NULL_CIPHER"
  \/ srtp.rtp_auth.key_len > 0
  \/ srtp.rtcp_auth.key_len > 0

\* the octets srtp_stream_init_keys keys the KDF with, for master key k
KdfKey(srtp, k) ==
  SubSeq(kdf_tmp_key(srtp, MasterKey(k)), 1,
         kdf_keylen(srtp.rtp_cipher.key_len, srtp.rtcp_cipher.key_len))

\* C36: for every stream on which a derived key is used, streams whose RTP
\* cipher is the null cipher with key length 0 included, two initialisations
\* that differ only in the caller's master key hand different key buffers to
\* the KDF.
C36_MasterKeyUsed ==
  (last.op = "stream_init_keys" /\ DerivedKeyUsed(last.arg[1])) =>
    \A k1, k2 \in KdfMasterKeys :
      k1 # k2 => KdfKey(last.arg[1], k1) # KdfKey(last.arg[1], k2)

\* C37: on every return path of srtp_stream_init_keys, ok or failing at any
\* step, the temporary key buffer has been set to zero and the KDF cipher
\* has been released (a KDF cipher that could not be allocated has nothing
\* to release).
C37_KdfCleanup ==
  last.op = "stream_init_keys" =>
    /\ last.out[3].tmp_key = Zeros(MAX_SRTP_KEY_LEN)
    /\ last.out[3].kdf \in {"released", "none"}

\* the base key length the cipher id stands for
ExpectedBaseKeyLength(cipher_id, combined_len) ==
  IF cipher_id \in {"SRTP_AES_ICM", "SRTP_AES_192_ICM", "SRTP_AES_256_ICM"}
  THEN combined_len - 14
  ELSE IF cipher_id = "SRTP_AES_128_GCM" THEN 16
  ELSE IF cipher_id = "SRTP_AES_256_GCM" THEN 32
  ELSE combined_len

\* C39: the KDF key length is 46 when the RTP or the RTCP combined key length
\* exceeds 30 and 30 otherwise; the base key length is combined_len - 14 for
\* AES-ICM, 16 for AES-128-GCM, 32 for AES-256-GCM and combined_len for any
\* other cipher, and the salt length is combined_len minus the base key
\* length.
C39_KdfParameters ==
  last.op = "stream_init_keys" =>
    LET rtp == last.arg[1].rtp_cipher
        rtcp == last.arg[1].rtcp_cipher
        lens == last.out[3].lens
    IN /\ lens.kdf_keylen = IF rtp.key_len > 30 \/ rtcp.key_len > 30 THEN 46 ELSE 30
       /\ lens.rtp_base_key_len = ExpectedBaseKeyLength(rtp.type, rtp.key_len)
       /\ lens.rtp_salt_len = rtp.key_len - lens.rtp_base_key_len
       /\ lens.rtcp_base_key_len = ExpectedBaseKeyLength(rtcp.type, rtcp.key_len)
       /\ lens.rtcp_salt_len = rtcp.key_len - lens.rtcp_base_key_len

\* a stream was keyed whose RTP cipher is AES-128-GCM (key length 28, salt
\* length 12) and whose RTCP key length, 31, is the one that exceeds 30
C39_Witness ==
  /\ last.op = "stream_init_keys"
  /\ last.status = "ok"
  /\ last.arg[1].rtp_cipher.type = "SRTP_AES_128_GCM"
  /\ last.arg[1].rtp_cipher.key_len = 28
  /\ last.arg[1].rtcp_cipher.key_len = 31
  /\ last.out[3].lens.kdf_keylen = 46
  /\ last.out[3].lens.rtp_salt_len = 12

\* srtp_stream_alloc has returned a failure
AllocFailed == last.op = "stream_alloc" /\ last.status # "ok"

\* the status the failing step of the last srtp_stream_alloc call reported:
\* srtp_crypto_alloc reports a failure by returning NULL
ReportedStatus ==
  IF last.out[1] \in {"str", "limit"} THEN "alloc_fail" ELSE last.out[3]

\* C38 as stated: when srtp_stream_alloc fails at any step, every object
\* acquired earlier in the call has been released, in the reverse of the
\* order of acquisition, and the status is the one the failing step reported.
C38_Original ==
  AllocFailed =>
    /\ last.out[2].released = Reverse(last.out[2].acquired)
    /\ last.status = ReportedStatus

\* C38: when srtp_stream_alloc fails at any step, every object acquired
\* earlier in the call has been released before the failure is returned -
\* the ciphers and MACs in the reverse of the order of acquisition, then the
\* key limit, then the stream context - and the status is the one the
\* failing step reported.
C38_Unwinding ==
  AllocFailed =>
    LET r == last.out[2]
        crypto_objects ==
          SelectSeq(r.acquired, LAMBDA o : o \notin {"str", "limit"})
        limit == SelectSeq(r.acquired, LAMBDA o : o = "limit")
        str == SelectSeq(r.acquired, LAMBDA o : o = "str")
    IN /\ r.released = Reverse(crypto_objects) \o limit \o str
       /\ last.status = ReportedStatus

\* the allocation of the EKT data failed after all other objects had been
\* acquired, and six objects were released
C38_Witness ==
  /\ AllocFailed
  /\ last.out[1] = "ekt"
  /\ last.status = "bad_param"
  /\ Len(last.out[2].released) = 6

====
